---- MODULE Spec2Model ----
(***************************************************************************)
(* Verification reconciliation of the Discord verification bot:           *)
(*   - the block-explorer evidence provider (ExplorerApiService): cache,  *)
(*     retry, per-contract threshold;                                      *)
(*   - the verification store (Database);                                  *)
(*   - the /verify command (explorer variant) and the auto-verify worker.  *)
(* Every await of the JavaScript source is a suspension point: an action  *)
(* runs a handler from one await to the next.                              *)
(***************************************************************************)
EXTENDS Integers, Sequences, FiniteSets, TLC

(***************************************************************************)
(* Configuration (config.contracts, config.explorer)                       *)
(***************************************************************************)
\* config.contracts, in configuration order: the contract ids.
Contracts == <<"contract1", "contract2">>

ContractIds == {Contracts[k] : k \in 1..Len(Contracts)}

\* contract.address of a configured contract (already lower-cased).
ContractAddress(c) == IF c = "contract1" THEN "0xc1" ELSE "0xc2"

\* contract.roleId of a configured contract.
ContractRoleId(c) == IF c = "contract1" THEN "role1" ELSE "role2"

Roles == {ContractRoleId(c) : c \in ContractIds}

\* The fallback of `config.explorer?.minTransactions || 3`.
DefaultMinTransactions == 3

\* Values config.explorer.minTransactions may hold; 0 stands for a missing
\* (falsy) setting.
MinChoices == {0, 1, 2}

\* getMinTransactions(): config.explorer?.minTransactions || 3
getMinTransactions(cfgMin) == IF cfgMin # 0 THEN cfgMin ELSE DefaultMinTransactions

(***************************************************************************)
(* Bounds of the model                                                     *)
(***************************************************************************)
\* Longest transaction list of the threshold specification.
MaxTxns == 3

\* Transaction hashes are 1..MaxHash; 0 is a missing (null/empty) hash.
MaxHash == 3

(***************************************************************************)
(* Transactions and counting (ExplorerApiService)                          *)
(***************************************************************************)
WalletAddr == "0xw"

\* Internal-transaction records as the explorer returns them.  Only the
\* fields the service reads are kept.
TxShapes ==
  { [to |-> ContractAddress("contract1"), from |-> WalletAddr, contractAddress |-> ""],
    [to |-> ContractAddress("contract2"), from |-> WalletAddr, contractAddress |-> ""],
    [to |-> WalletAddr, from |-> ContractAddress("contract1"), contractAddress |-> ""],
    [to |-> "", from |-> WalletAddr, contractAddress |-> ContractAddress("contract1")] }

TxPool ==
  { [to |-> s.to, from |-> s.from, contractAddress |-> s.contractAddress,
     transactionHash |-> h] : s \in TxShapes, h \in 0..MaxHash }

\* getMatchingTransactions(transactions, contractAddress): the transactions
\* whose to, from or contractAddress is the contract, in order.
getMatchingTransactions(transactions, addr) ==
  SelectSeq(transactions,
            LAMBDA tx : tx.to = addr \/ tx.from = addr \/ tx.contractAddress = addr)

\* countTransactionsForContract: the number of distinct non-empty
\* transaction hashes among the matching transactions.
countTransactionsForContract(transactions, addr) ==
  LET m == getMatchingTransactions(transactions, addr)
  IN  Cardinality({m[k].transactionHash : k \in 1..Len(m)} \ {0})

\* The unsatisfied reason of a result below the threshold.
BelowReason(txnCount, minTxns) ==
  IF txnCount = 0
  THEN "No transactions found"
  ELSE "Only " \o ToString(txnCount) \o " txns found (min " \o ToString(minTxns)
       \o " required)"

RetryLater == "API error - retry later"

\* `error || 'API error - retry later'`: an error without a message is falsy.
ErrorOrRetryLater(error) == IF error # "" THEN error ELSE RetryLater

\* The satisfaction test of one contract: `txnCount < minTxns` fails.
MutBelowThreshold(txnCount, minTxns) == txnCount <= minTxns

BelowThreshold(txnCount, minTxns) == txnCount < minTxns

\* The per-contract body of verifyAllContracts / verifySingleContract for a
\* successfully fetched transaction list.
ContractResult(c, transactions, minTxns) ==
  LET txnCount == countTransactionsForContract(transactions, ContractAddress(c))
      contractTxns == getMatchingTransactions(transactions, ContractAddress(c))
  IN  IF BelowThreshold(txnCount, minTxns)
      THEN [success |-> FALSE, contractId |-> c, roleId |-> ContractRoleId(c),
            txnCount |-> txnCount, error |-> BelowReason(txnCount, minTxns),
            hash |-> 0]
      ELSE [success |-> TRUE, contractId |-> c, roleId |-> ContractRoleId(c),
            txnCount |-> txnCount, error |-> "",
            hash |-> IF Len(contractTxns) > 0 THEN contractTxns[1].transactionHash
                     ELSE 0]

\* The result of a contract when the fetch failed.
FailedResult(c, error) ==
  [success |-> FALSE, contractId |-> c, roleId |-> ContractRoleId(c),
   txnCount |-> 0, error |-> ErrorOrRetryLater(error), hash |-> 0]

\* verifyAllContracts(wallet), given what getInternalTransactions returned:
\* one result per configured contract, in configuration order.
verifyAllContracts(fetched, cfgMin) ==
  [k \in 1..Len(Contracts) |->
     IF ~fetched.success
     THEN FailedResult(Contracts[k], fetched.error)
     ELSE ContractResult(Contracts[k], fetched.transactions, getMinTransactions(cfgMin))]

\* verifySingleContract(wallet, contract), given what getInternalTransactions
\* returned.
verifySingleContract(fetched, c, cfgMin) ==
  IF ~fetched.success
  THEN FailedResult(c, fetched.error)
  ELSE ContractResult(c, fetched.transactions, getMinTransactions(cfgMin))

(***************************************************************************)
(* Upstream answers of the explorer API, as getWalletInternalTransactions  *)
(* sees them                                                               *)
(***************************************************************************)
\* Messages of errors raised while fetching: an HTTP error status, a
\* network failure, and an error value that carries no message.
ThrowMessages == {"API error: 500", "fetch failed", ""}

\* `message` of a payload whose status is neither '1' nor the
\* 'No transactions found' answer; "" stands for a missing message.
ApiMessages == {"Max rate limit reached", ""}

\* getWalletInternalTransactions(wallet) on an upstream answer:
\*   kind "ok"       status '1' with result `transactions`
\*   kind "notfound" status '0', message 'No transactions found'
\*   kind "apierr"   any other payload: throws message || 'Unknown API error'
\*   kind "throw"    fetchWithCache threw
getWalletInternalTransactions(resp) ==
  CASE resp.kind = "notfound" ->
         [success |-> TRUE, transactions |-> <<>>, error |-> ""]
    [] resp.kind = "apierr" ->
         [success |-> FALSE, transactions |-> <<>>,
          error |-> IF resp.message # "" THEN resp.message ELSE "Unknown API error"]
    [] resp.kind = "throw" ->
         [success |-> FALSE, transactions |-> <<>>, error |-> resp.message]
    [] OTHER ->
         [success |-> TRUE, transactions |-> resp.transactions, error |-> ""]

(***************************************************************************)
(* State                                                                   *)
(***************************************************************************)
Wallets == {"w1", "w2", "w3"}

DiscordIds == {"d1", "d2", "d3"}

VARIABLES
  minTransactions,  \* config.explorer.minTransactions (0: not set)
  batchConfig,      \* [batchSize, maxBatchSize]: config.performance.batchSize,
                    \* config.autoVerify.maxBatchSize
  data,             \* Database.data: wallet -> user entry, or NoUser
  walletOrder,      \* the key order of Database.data (insertion order)
  memberRoles,      \* Discord: the roles each guild member holds
  guildRoles,       \* Discord: the roles present in the guild's role cache
  cmd,              \* the /verify execution of each Discord user
  worker,           \* AutoVerifyWorker.run: isRunning and the locals of run()
  pu,               \* the processUser execution of each wallet of a batch
  recordCalls,      \* history: recordVerification calls that wrote, per wallet and contract
  announcements,    \* history: announcements sent, per wallet and contract
  lastPass,         \* history: the last completed reconciliation of each wallet
  clean,            \* history: the reconciliation in flight of a wallet has run alone so far
  probe,            \* the threshold specification: the call under test
  cache,            \* ExplorerApiService.cache: the entry of the wallet's URL
  fetch,            \* the fetch specification: the check in flight or last completed
  now,              \* the fetch and throttle specifications: Date.now(), in ticks
  throttle,         \* the throttle specification: lastRequestTime and its callers
  logs              \* the log specification: the outcome log files and what was recorded

serviceVars == <<probe, cache, fetch, now, throttle, logs>>

vars == <<minTransactions, batchConfig, data, walletOrder, memberRoles, guildRoles,
          cmd, worker, pu, recordCalls, announcements, lastPass, clean, serviceVars>>

reconVars == <<data, walletOrder, memberRoles, guildRoles, cmd, worker, pu,
               recordCalls, announcements, lastPass, clean>>

NoUser == [linked |-> FALSE]

\* new Date().toISOString() of any moment; the model keeps no clock.
Now == "now"

None == [none |-> TRUE]

(***************************************************************************)
(* Database                                                                *)
(***************************************************************************)
\* An absent key of `verifications`.
NoVerification == [verified |-> FALSE, txnCount |-> 0, verifiedAt |-> "never"]

\* The entry linkWallet creates.
NewUserEntry(discordId) ==
  [linked |-> TRUE, discordId |-> discordId, lastCheckedAt |-> "null", attempts |-> 0,
   roles |-> <<>>, verifications |-> [c \in ContractIds |-> NoVerification]]

SeqContains(s, x) == \E k \in 1..Len(s) : s[k] = x

\* getWalletByDiscordId(discordId): the first wallet, in key order, whose
\* entry has that discordId; null when there is none.
getWalletByDiscordId(db, order, discordId) ==
  LET hits == SelectSeq(order, LAMBDA w : db[w].linked /\ db[w].discordId = discordId)
  IN  IF Len(hits) > 0 THEN hits[1] ELSE "null"

\* isVerified(wallet, contractId): user.verifications[contractId]?.verified === true
MutIsVerified(db, w, c) == FALSE

isVerified(db, w, c) ==
  db[w].linked /\ db[w].verifications[c].verified

\* The verifications object recordVerification writes into: the stored one
\* (an empty object only when the entry has none).
MutVerificationsOf(entry) == [c \in ContractIds |-> NoVerification]

VerificationsOf(entry) == entry.verifications

\* recordVerification(wallet, contractId, txHash, blockNumber, roleId, roleName,
\* txnCount) called at the time stamp `at`: the store afterwards.  An unknown
\* wallet is left alone (return false).
MutRecordVerification(db, w, c, roleId, txnCount, at) == db

recordVerification(db, w, c, roleId, txnCount, at) ==
  IF ~db[w].linked THEN db
  ELSE [db EXCEPT ![w] =
          [@ EXCEPT !.verifications =
                      [VerificationsOf(db[w]) EXCEPT ![c] =
                         [verified |-> TRUE, txnCount |-> txnCount, verifiedAt |-> at]],
                    !.roles = IF SeqContains(@, roleId) THEN @ ELSE Append(@, roleId),
                    !.lastCheckedAt = at]]

\* addUserRole(wallet, roleId)
MutAddUserRole(db, w, roleId) ==
  IF ~db[w].linked THEN db ELSE [db EXCEPT ![w].roles = <<roleId>>]

addUserRole(db, w, roleId) ==
  IF ~db[w].linked THEN db
  ELSE [db EXCEPT ![w].roles = IF SeqContains(@, roleId) THEN @ ELSE Append(@, roleId)]

\* updateLastChecked(wallet) at the time stamp `at`
updateLastChecked(db, w, at) ==
  IF ~db[w].linked THEN db ELSE [db EXCEPT ![w].lastCheckedAt = at]

\* getUsersForAutoVerify(): the wallets of the store, in key order.
getUsersForAutoVerify(db, order) == SelectSeq(order, LAMBDA w : db[w].linked)

\* One more recordVerification call that wrote for (w, c).
Counted(calls, db, w, c) ==
  IF db[w].linked THEN [calls EXCEPT ![w][c] = @ + 1] ELSE calls

(***************************************************************************)
(* Upstream answers the reconciliation specifications draw from            *)
(***************************************************************************)
\* n1 transactions with contract1 and n2 with contract2, each with its own hash.
Bundle(n1, n2) ==
  [k \in 1..(n1 + n2) |->
     IF k <= n1
     THEN [to |-> ContractAddress("contract1"), from |-> WalletAddr,
           contractAddress |-> "", transactionHash |-> k]
     ELSE [to |-> ContractAddress("contract2"), from |-> WalletAddr,
           contractAddress |-> "", transactionHash |-> k - n1]]

\* Per-contract counts of the bundles: no transaction, or exactly the default
\* threshold.
CountChoices == {0, DefaultMinTransactions}

ReconResponses ==
  { [kind |-> "ok", transactions |-> Bundle(n1, n2), message |-> ""] :
      n1 \in CountChoices, n2 \in CountChoices }
  \cup { [kind |-> "throw", transactions |-> <<>>, message |-> "fetch failed"] }

(***************************************************************************)
(* Reconciliations in flight (history)                                     *)
(***************************************************************************)
CmdInFlight(d) == cmd[d].pc # "idle"

PuInFlight(w) == pu[w].pc \in {"fetching", "roleinfo", "assigning", "adding", "announcing"}

\* Some reconciliation of wallet w is in flight, other than the /verify of d.
OtherInFlight(w, d) ==
  \/ PuInFlight(w)
  \/ \E e \in DiscordIds \ {d} : CmdInFlight(e) /\ cmd[e].wallet = w

AnyCmdInFlight(w) == \E e \in DiscordIds : CmdInFlight(e) /\ cmd[e].wallet = w

(***************************************************************************)
(* /verify (explorer variant): execute(interaction)                        *)
(***************************************************************************)
\* The `contract` option of /verify: none, or one configured contract.
Selections == {"all", "contract2"}

IdleCmd ==
  [pc |-> "idle", wallet |-> "null", sel |-> "all", results |-> <<>>, i |-> 0,
   newlyVerified |-> <<>>, alreadyVerified |-> <<>>, failedVerifications |-> <<>>,
   recorded |-> {}, grantTried |-> {}, startVerified |-> {}, startHeld |-> {}]

\* History: the targets the store holds verified for wallet w.
VerifiedTargets(db, w) == {c \in ContractIds : isVerified(db, w, c)}

\* The contracts a list of results is about, and those it finds satisfied.
Seen(results) == {results[k].contractId : k \in 1..Len(results)}

Sat(results) == {results[k].contractId : k \in {j \in 1..Len(results) : results[j].success}}

\* What the previous completed reconciliation of a wallet leaves to compare
\* the next one with.
PrevOf(last) ==
  IF last.none THEN None
  ELSE [none |-> FALSE, seen |-> Seen(last.results), sat |-> Sat(last.results),
        recorded |-> last.recorded]

\* The entry pushed on alreadyVerified.
AlreadyEntry(r, held) ==
  [name |-> r.contractId, hasRole |-> r.roleId \in held, txnCount |-> r.txnCount]

NewEntry(r, isNew, error) ==
  [name |-> r.contractId, txnCount |-> r.txnCount, isNew |-> isNew, error |-> error]

FailedEntry(r) == [name |-> r.contractId, error |-> r.error, txnCount |-> r.txnCount]

\* The test at the head of the loop body: the stored record decides, the
\* fresh result is not looked at.
MutVerifyTakesAlreadyBranch(db, w, r) == isVerified(db, w, r.contractId) /\ r.success

VerifyTakesAlreadyBranch(db, w, r) == isVerified(db, w, r.contractId)

\* `for (const result of results)` of execute, run from result S.c.i up to the
\* next await (`await member.roles.add(role)`, pc "granting") or to the end of
\* the list (pc "done").  S = [c: the locals, data, calls, held: the member's
\* roles].
RECURSIVE VerifyLoop(_)
VerifyLoop(S) ==
  IF S.c.i > Len(S.c.results)
  THEN [S EXCEPT !.c.pc = "done"]
  ELSE
    LET r == S.c.results[S.c.i]
        w == S.c.wallet
    IN  IF VerifyTakesAlreadyBranch(S.data, w, r)
        THEN VerifyLoop([S EXCEPT !.c.alreadyVerified = Append(@, AlreadyEntry(r, S.held)),
                                  !.c.i = @ + 1])
        ELSE IF r.success
        THEN
          LET S1 == [S EXCEPT !.data = recordVerification(S.data, w, r.contractId,
                                                         r.roleId, r.txnCount, Now),
                              !.calls = Counted(S.calls, S.data, w, r.contractId),
                              !.c.recorded = @ \cup {r.contractId}]
          IN  IF r.roleId \in guildRoles /\ r.roleId \notin S.held
              THEN [S1 EXCEPT !.c.pc = "granting", !.c.grantTried = @ \cup {r.contractId}]
              ELSE IF r.roleId \in S.held
              THEN VerifyLoop([S1 EXCEPT !.c.newlyVerified =
                                           Append(@, NewEntry(r, FALSE, "")),
                                         !.c.i = @ + 1])
              ELSE VerifyLoop([S1 EXCEPT !.c.i = @ + 1])
        ELSE VerifyLoop([S EXCEPT !.c.failedVerifications = Append(@, FailedEntry(r)),
                                  !.c.i = @ + 1])

\* The contracts announced by the /verify announcement: the isNew entries.
AnnouncedBy(c) ==
  {c.newlyVerified[k].name : k \in {j \in 1..Len(c.newlyVerified) : c.newlyVerified[j].isNew}}

\* The state after a stretch of execute that ended in S.  When the loop is
\* over the reply and the announcement are sent and execute returns; what the
\* execution did is kept in lastPass.
VerifySettle(d, S) ==
  LET w == S.c.wallet
  IN  /\ data' = S.data
      /\ recordCalls' = S.calls
      /\ IF S.c.pc = "done"
         THEN /\ cmd' = [cmd EXCEPT ![d] = IdleCmd]
              /\ announcements' =
                   [announcements EXCEPT ![w] =
                      [c \in ContractIds |-> IF c \in AnnouncedBy(S.c) THEN @[c] + 1 ELSE @[c]]]
              /\ lastPass' = [lastPass EXCEPT ![w] =
                                [none |-> FALSE, by |-> "verify", results |-> S.c.results,
                                 newlyVerified |-> S.c.newlyVerified,
                                 alreadyVerified |-> S.c.alreadyVerified,
                                 failedVerifications |-> S.c.failedVerifications,
                                 newCount |-> Len(S.c.newlyVerified),
                                 failedCount |-> Len(S.c.failedVerifications),
                                 recorded |-> S.c.recorded, grantTried |-> S.c.grantTried,
                                 startVerified |-> S.c.startVerified,
                                 startHeld |-> S.c.startHeld, threw |-> FALSE,
                                 alone |-> clean[w], prev |-> PrevOf(lastPass[w])]]
         ELSE /\ cmd' = [cmd EXCEPT ![d] = S.c]
              /\ UNCHANGED <<announcements, lastPass>>

\* execute up to `await explorerApi.verifyAllContracts(wallet)` (or
\* verifySingleContract for a named contract).  A user without a linked wallet
\* is answered at once and nothing changes.
VerifyStart(d) ==
  /\ cmd[d].pc = "idle"
  /\ LET w == getWalletByDiscordId(data, walletOrder, d)
     IN  /\ w # "null"
         /\ \E sel \in Selections :
              cmd' = [cmd EXCEPT ![d] =
                        [IdleCmd EXCEPT !.pc = "fetching", !.wallet = w, !.sel = sel,
                                        !.startVerified = VerifiedTargets(data, w),
                                        !.startHeld = memberRoles[d]]]
         /\ clean' = [clean EXCEPT ![w] = ~OtherInFlight(w, d)]
  /\ UNCHANGED <<minTransactions, batchConfig, data, walletOrder, memberRoles, guildRoles,
                 worker, pu, recordCalls, announcements, lastPass, serviceVars>>

\* The results arrive; the loop runs to its first await or to the reply.
VerifyFetched(d) ==
  /\ cmd[d].pc = "fetching"
  /\ \E resp \in ReconResponses :
       LET fetched == getWalletInternalTransactions(resp)
           results == IF cmd[d].sel = "all"
                      THEN verifyAllContracts(fetched, minTransactions)
                      ELSE <<verifySingleContract(fetched, cmd[d].sel, minTransactions)>>
           S0 == [c |-> [cmd[d] EXCEPT !.results = results, !.i = 1],
                  data |-> data, calls |-> recordCalls, held |-> memberRoles[d]]
       IN  VerifySettle(d, VerifyLoop(S0))
  /\ UNCHANGED <<minTransactions, batchConfig, walletOrder, memberRoles, guildRoles,
                 worker, pu, clean, serviceVars>>

\* `await member.roles.add(role)` returns or throws; the loop goes on.
VerifyGranted(d) ==
  /\ cmd[d].pc = "granting"
  /\ \E ok \in BOOLEAN :
       LET r == cmd[d].results[cmd[d].i]
           held == IF ok THEN memberRoles[d] \cup {r.roleId} ELSE memberRoles[d]
           c1 == [cmd[d] EXCEPT !.newlyVerified =
                                  Append(@, NewEntry(r, ok, IF ok THEN ""
                                                            ELSE "Failed to assign role")),
                                !.i = @ + 1]
           S0 == [c |-> c1, data |-> data, calls |-> recordCalls, held |-> held]
       IN  /\ memberRoles' = [memberRoles EXCEPT ![d] = held]
           /\ VerifySettle(d, VerifyLoop(S0))
  /\ UNCHANGED <<minTransactions, batchConfig, walletOrder, guildRoles, worker, pu,
                 clean, serviceVars>>

(***************************************************************************)
(* AutoVerifyWorker.processUser(userData)                                  *)
(***************************************************************************)
IdlePu ==
  [pc |-> "idle", discordId |-> "null", results |-> <<>>, i |-> 0,
   newVerifications |-> 0, failedVerifications |-> 0, rolesAssigned |-> 0,
   recorded |-> {}, grantTried |-> {}, startVerified |-> {}, startHeld |-> {},
   threw |-> FALSE]

\* `for (const verificationResult of results)` of processUser, run from result
\* S.p.i up to the next await (`await this.getRoleInfo(...)`, pc "roleinfo") or
\* through updateLastChecked to the return (pc "settled").
\* S = [p: the locals, w: the wallet, data].
RECURSIVE PuLoop(_)
PuLoop(S) ==
  IF S.p.i > Len(S.p.results)
  THEN [S EXCEPT !.data = updateLastChecked(S.data, S.w, Now), !.p.pc = "settled"]
  ELSE
    LET r == S.p.results[S.p.i]
    IN  IF r.success /\ ~isVerified(S.data, S.w, r.contractId)
        THEN [S EXCEPT !.p.pc = "roleinfo"]
        ELSE IF ~r.success /\ ~isVerified(S.data, S.w, r.contractId)
        THEN PuLoop([S EXCEPT !.p.failedVerifications = @ + 1, !.p.i = @ + 1])
        ELSE PuLoop([S EXCEPT !.p.i = @ + 1])

\* The state after a stretch of processUser that ended in S.  When processUser
\* has returned only its result is left (for run() to add up); what the
\* execution did is kept in lastPass.
PuSettle(w, S) ==
  /\ data' = S.data
  /\ IF S.p.pc = "settled"
     THEN /\ pu' = [pu EXCEPT ![w] =
                      [IdlePu EXCEPT !.pc = "settled",
                                     !.newVerifications = S.p.newVerifications,
                                     !.failedVerifications = S.p.failedVerifications,
                                     !.rolesAssigned = S.p.rolesAssigned]]
          /\ lastPass' = [lastPass EXCEPT ![w] =
                            [none |-> FALSE, by |-> "auto", results |-> S.p.results,
                             newlyVerified |-> <<>>, alreadyVerified |-> <<>>,
                             failedVerifications |-> <<>>,
                             newCount |-> S.p.newVerifications,
                             failedCount |-> S.p.failedVerifications,
                             recorded |-> S.p.recorded, grantTried |-> S.p.grantTried,
                             startVerified |-> S.p.startVerified,
                             startHeld |-> S.p.startHeld, threw |-> S.p.threw,
                             alone |-> clean[w], prev |-> PrevOf(lastPass[w])]]
     ELSE /\ pu' = [pu EXCEPT ![w] = S.p]
          /\ UNCHANGED lastPass

\* The catch block of processUser: one failed verification is counted and the
\* result is returned.
MutCatchResult(p) == [p EXCEPT !.threw = TRUE, !.pc = "settled"]

CatchResult(p) ==
  [p EXCEPT !.failedVerifications = @ + 1, !.threw = TRUE, !.pc = "settled"]

\* `await explorerApi.verifyAllContracts(wallet)` returns, or the call throws
\* and the catch block counts one failed verification and returns.
PuFetched(w, responses) ==
  /\ pu[w].pc = "fetching"
  /\ \/ \E resp \in responses :
          LET results == verifyAllContracts(getWalletInternalTransactions(resp),
                                            minTransactions)
          IN  PuSettle(w, PuLoop([p |-> [pu[w] EXCEPT !.results = results, !.i = 1],
                                  w |-> w, data |-> data]))
     \/ PuSettle(w, [p |-> CatchResult(pu[w]), w |-> w, data |-> data])
  /\ UNCHANGED <<minTransactions, batchConfig, walletOrder, memberRoles, guildRoles,
                 cmd, worker, recordCalls, announcements, clean, serviceVars>>

\* `await this.getRoleInfo(roleId)` returns: recordVerification, then
\* assignRole up to `await guild.members.fetch(discordId)`.
PuRoleInfo(w) ==
  /\ pu[w].pc = "roleinfo"
  /\ LET r == pu[w].results[pu[w].i]
     IN  /\ data' = recordVerification(data, w, r.contractId, r.roleId, r.txnCount, Now)
         /\ recordCalls' = Counted(recordCalls, data, w, r.contractId)
         /\ pu' = [pu EXCEPT ![w].pc = "assigning",
                             ![w].recorded = @ \cup {r.contractId},
                             ![w].grantTried = @ \cup {r.contractId}]
  /\ UNCHANGED <<minTransactions, batchConfig, walletOrder, memberRoles, guildRoles,
                 cmd, worker, announcements, lastPass, clean, serviceVars>>

\* processUser after assignRole returned roleAssigned: the counters, then
\* `await this.sendAnnouncement(...)`.
AfterAssign(p, roleAssigned) ==
  [p EXCEPT !.rolesAssigned = IF roleAssigned THEN @ + 1 ELSE @,
            !.newVerifications = @ + 1,
            !.pc = "announcing"]

\* assignRole after `guild.members.fetch(discordId)`: no member, a member who
\* holds the role, a role to add (`await member.roles.add(role)`), or no role.
PuAssigning(w) ==
  /\ pu[w].pc = "assigning"
  /\ LET r == pu[w].results[pu[w].i]
         d == pu[w].discordId
     IN  \/ pu' = [pu EXCEPT ![w] = AfterAssign(@, FALSE)]
         \/ /\ r.roleId \in memberRoles[d]
            /\ pu' = [pu EXCEPT ![w] = AfterAssign(@, TRUE)]
         \/ /\ r.roleId \notin memberRoles[d]
            /\ pu' = [pu EXCEPT ![w] = IF r.roleId \in guildRoles
                                       THEN [@ EXCEPT !.pc = "adding"]
                                       ELSE AfterAssign(@, FALSE)]
  /\ UNCHANGED <<minTransactions, batchConfig, data, walletOrder, memberRoles, guildRoles,
                 cmd, worker, recordCalls, announcements, lastPass, clean, serviceVars>>

\* `await member.roles.add(role)` of assignRole returns (the role is stored with
\* addUserRole for the member's wallet) or throws (assignRole returns false).
PuAdded(w) ==
  /\ pu[w].pc = "adding"
  /\ LET r == pu[w].results[pu[w].i]
         d == pu[w].discordId
         wallet == getWalletByDiscordId(data, walletOrder, d)
     IN  \/ /\ memberRoles' = [memberRoles EXCEPT ![d] = @ \cup {r.roleId}]
            /\ data' = IF wallet # "null" THEN addUserRole(data, wallet, r.roleId) ELSE data
            /\ pu' = [pu EXCEPT ![w] = AfterAssign(@, TRUE)]
         \/ /\ pu' = [pu EXCEPT ![w] = AfterAssign(@, FALSE)]
            /\ UNCHANGED <<memberRoles, data>>
  /\ UNCHANGED <<minTransactions, batchConfig, walletOrder, guildRoles, cmd, worker,
                 recordCalls, announcements, lastPass, clean, serviceVars>>

\* `await this.sendAnnouncement(...)` returns; the loop goes on.
PuAnnounced(w) ==
  /\ pu[w].pc = "announcing"
  /\ LET r == pu[w].results[pu[w].i]
     IN  /\ announcements' = [announcements EXCEPT ![w][r.contractId] = @ + 1]
         /\ PuSettle(w, PuLoop([p |-> [pu[w] EXCEPT !.i = @ + 1], w |-> w, data |-> data]))
  /\ UNCHANGED <<minTransactions, batchConfig, walletOrder, memberRoles, guildRoles,
                 cmd, worker, recordCalls, clean, serviceVars>>

(***************************************************************************)
(* AutoVerifyWorker.run()                                                  *)
(***************************************************************************)
\* performance.createBatches(items, batchSize): slices of batchSize items from
\* index `from` (0-based) on.
RECURSIVE BatchesFrom(_, _, _)
BatchesFrom(items, batchSize, from) ==
  IF from < Len(items)
  THEN LET upto == IF from + batchSize < Len(items) THEN from + batchSize ELSE Len(items)
       IN  <<SubSeq(items, from + 1, upto)>> \o BatchesFrom(items, batchSize, upto)
  ELSE <<>>

MutCreateBatches(items, batchSize) == BatchesFrom(items, batchSize + 1, 0)

createBatches(items, batchSize) == BatchesFrom(items, batchSize, 0)

IdleWorker ==
  [isRunning |-> FALSE, pc |-> "idle", users |-> <<>>, batchIndex |-> 0, processed |-> 0,
   newVerifications |-> 0, failedVerifications |-> 0, rolesAssigned |-> 0, done |-> {},
   runs |-> 0]

\* Runs of the worker the specifications follow.
MaxRuns == 2

RECURSIVE SumOver(_, _)
SumOver(f, S) ==
  IF S = {} THEN 0 ELSE LET x == CHOOSE y \in S : TRUE IN f[x] + SumOver(f, S \ {x})

BatchWallets(users, batchSize, batchIndex) ==
  LET b == createBatches(users, batchSize)[batchIndex + 1]
  IN  {b[k].wallet : k \in 1..Len(b)}

\* batch.map(userData => this.processUser(userData)): every processUser of the
\* batch runs up to its `await explorerApi.verifyAllContracts(wallet)`.
MutStartBatch(users, batchIndex) == UNCHANGED <<pu, clean>>

StartBatch(users, batchIndex) ==
  LET b == createBatches(users, batchConfig.batchSize)[batchIndex + 1]
      ws == {b[k].wallet : k \in 1..Len(b)}
      idOf == [w \in ws |-> (CHOOSE k \in 1..Len(b) : b[k].wallet = w)]
  IN  /\ pu' = [w \in Wallets |->
                  IF w \in ws
                  THEN [IdlePu EXCEPT !.pc = "fetching", !.discordId = b[idOf[w]].discordId,
                                      !.startVerified = VerifiedTargets(data, w),
                                      !.startHeld = memberRoles[b[idOf[w]].discordId]]
                  ELSE pu[w]]
      /\ clean' = [w \in Wallets |-> IF w \in ws THEN ~AnyCmdInFlight(w) ELSE clean[w]]

\* run() from its start to the first `await Promise.allSettled(...)`; a tick
\* that finds a run in progress returns.  With no user the run ends at once.
RunStart ==
  /\ ~worker.isRunning
  /\ worker.runs < MaxRuns
  /\ LET order == getUsersForAutoVerify(data, walletOrder)
         users == [k \in 1..Len(order) |->
                     [wallet |-> order[k], discordId |-> data[order[k]].discordId]]
     IN  IF Len(users) = 0
         THEN /\ worker' = [IdleWorker EXCEPT !.runs = worker.runs + 1]
              /\ UNCHANGED <<pu, clean>>
         ELSE /\ worker' = [IdleWorker EXCEPT !.isRunning = TRUE, !.pc = "batch",
                                              !.users = users, !.runs = worker.runs + 1]
              /\ StartBatch(users, 0)
  /\ UNCHANGED <<minTransactions, batchConfig, data, walletOrder, memberRoles, guildRoles,
                 cmd, recordCalls, announcements, lastPass, serviceVars>>

\* The processUser of one identity is settled only if processing it breaks
\* nothing else; a failing identity settles too (Promise.allSettled).
Settled(w) == pu[w].pc = "settled"

\* Promise.allSettled returns: the results are added up; then the delay
\* between batches, or the end of the run after the last batch.
RunBatchSettled ==
  /\ worker.pc = "batch"
  /\ LET ws == BatchWallets(worker.users, batchConfig.batchSize, worker.batchIndex)
         n == Len(createBatches(worker.users, batchConfig.batchSize))
         summed == [worker EXCEPT
                      !.processed = @ + Cardinality(ws),
                      !.done = @ \cup ws,
                      !.newVerifications = @ + SumOver([w \in ws |-> pu[w].newVerifications], ws),
                      !.failedVerifications =
                          @ + SumOver([w \in ws |-> pu[w].failedVerifications], ws),
                      !.rolesAssigned = @ + SumOver([w \in ws |-> pu[w].rolesAssigned], ws)]
     IN  /\ \A w \in ws : Settled(w)
         /\ worker' = IF worker.batchIndex < n - 1
                      THEN [summed EXCEPT !.pc = "delay"]
                      ELSE [summed EXCEPT !.pc = "idle", !.isRunning = FALSE]
         /\ pu' = [w \in Wallets |-> IF w \in ws THEN IdlePu ELSE pu[w]]
  /\ UNCHANGED <<minTransactions, batchConfig, data, walletOrder, memberRoles, guildRoles,
                 cmd, recordCalls, announcements, lastPass, clean, serviceVars>>

\* `await this.delay(100)` returns: the run stops when processed has reached
\* config.autoVerify.maxBatchSize, otherwise the next batch starts.
RunAfterDelay ==
  /\ worker.pc = "delay"
  /\ IF worker.processed >= batchConfig.maxBatchSize
     THEN /\ worker' = [worker EXCEPT !.pc = "idle", !.isRunning = FALSE]
          /\ UNCHANGED <<pu, clean>>
     ELSE /\ worker' = [worker EXCEPT !.pc = "batch", !.batchIndex = @ + 1]
          /\ StartBatch(worker.users, worker.batchIndex + 1)
  /\ UNCHANGED <<minTransactions, batchConfig, data, walletOrder, memberRoles, guildRoles,
                 cmd, recordCalls, announcements, lastPass, serviceVars>>

(***************************************************************************)
(* The explorer service's cache and retry loop (fetchWithCache,            *)
(* fetchWithRetry) for the URL of one wallet                               *)
(***************************************************************************)
\* Clock ticks the fetch specification runs for.
MaxClock == 3

\* getCacheTTL(), in clock ticks.
CacheTTL == 2

\* The default of fetchWithRetry's `retries` parameter.
Retries == 3

RETRIABLE_STATUS_CODES == {502, 503, 504, 429}

\* HTTP statuses of responses that are not ok.
ErrorStatuses == RETRIABLE_STATUS_CODES \cup {404, 500}

NoEntry == [present |-> FALSE]

\* What `await this.fetchWithRetry(url)` gave when the loop ran out of
\* attempts without returning or throwing.
Undefined == [kind |-> "undefined", transactions |-> <<>>, message |-> ""]

\* JSON payloads of ok responses.
Payloads ==
  { [kind |-> "ok", transactions |-> Bundle(DefaultMinTransactions, 0), message |-> ""],
    [kind |-> "notfound", transactions |-> <<>>, message |-> ""] }
  \cup { [kind |-> "apierr", transactions |-> <<>>, message |-> m] : m \in ApiMessages }

\* The message of the error fetch rejects with when the AbortController of the
\* request timeout aborts it.
AbortMessage == "This operation was aborted"

\* The message of the error response.json() rejects with on a body that is not
\* JSON.
MalformedMessage == "Unexpected token < in JSON"

\* `log` is the history of fetchWithRetry's call: its upstream requests, each
\* with its outcome, and its backoff waits, each with its length, in order;
\* `end` is how the call ended.
IdleFetch ==
  [pc |-> "idle", i |-> 0, requests |-> 0, fromCache |-> FALSE,
   result |-> [success |-> TRUE, transactions |-> <<>>, error |-> ""],
   prevFailed |-> FALSE, log |-> <<>>, end |-> "none"]

Request(outcome) == [e |-> "request", outcome |-> outcome, ms |-> 0]

Wait(ms) == [e |-> "wait", outcome |-> "", ms |-> ms]

\* `Math.pow(2, i) * 1000`
MutBackoffDelay(i) == 1000

BackoffDelay(i) == (2 ^ i) * 1000

\* `cached && Date.now() - cached.timestamp < this.getCacheTTL()`
CacheHit(entry, t) == entry.present /\ t - entry.timestamp < CacheTTL

\* getWalletInternalTransactions on what fetchWithCache returned; reading
\* `data.status` of undefined throws a TypeError, which the catch reports.
WalletResult(d) ==
  IF d.kind = "undefined"
  THEN getWalletInternalTransactions(
         [kind |-> "throw", transactions |-> <<>>,
          message |-> "Cannot read properties of undefined (reading 'status')"])
  ELSE getWalletInternalTransactions(d)

\* The check is over with the given result.
FetchDone(f, result, fromCache) ==
  [f EXCEPT !.pc = "done", !.result = result, !.fromCache = fromCache]

\* fetchWithCache stores what fetchWithRetry returned.
CacheSet(entry, d, t) == [present |-> TRUE, data |-> d, timestamp |-> t]

\* fetchWithRetry's catch block for the error of attempt i (f.i, from 0):
\* rethrown on the last attempt, otherwise followed by a backoff wait and the
\* next attempt.
MutCatchRetries(f, message) ==
  [FetchDone(f, [success |-> FALSE, transactions |-> <<>>, error |-> message], FALSE)
     EXCEPT !.end = "threw"]

CatchRetries(f, message) ==
  IF f.i = Retries - 1
  THEN [FetchDone(f, [success |-> FALSE, transactions |-> <<>>, error |-> message], FALSE)
          EXCEPT !.end = "threw"]
  ELSE [f EXCEPT !.i = @ + 1, !.log = Append(@, Wait(BackoffDelay(f.i)))]

\* A check starts: getWalletInternalTransactions calls fetchWithCache, which
\* answers from the cache or enters fetchWithRetry.
CheckStart ==
  /\ fetch.pc \in {"idle", "done"}
  /\ LET f == [IdleFetch EXCEPT !.prevFailed = fetch.pc = "done" /\ ~fetch.result.success]
     IN  fetch' = IF CacheHit(cache, now)
                  THEN FetchDone(f, WalletResult(cache.data), TRUE)
                  ELSE [f EXCEPT !.pc = "attempt"]
  /\ UNCHANGED <<minTransactions, batchConfig, reconVars, probe, cache, now, throttle, logs>>

\* Attempt i of fetchWithRetry gets an ok response with a JSON body: the
\* payload is returned and fetchWithCache stores it.
AttemptOk ==
  /\ fetch.pc = "attempt"
  /\ \E d \in Payloads :
       /\ cache' = CacheSet(cache, d, now)
       /\ fetch' = [FetchDone([fetch EXCEPT !.requests = @ + 1,
                                            !.log = Append(@, Request("ok"))],
                              WalletResult(d), FALSE)
                     EXCEPT !.end = "returned"]
  /\ UNCHANGED <<minTransactions, batchConfig, reconVars, probe, now, throttle, logs>>

\* Attempt i gets an ok response whose body is not JSON: response.json()
\* rejects inside the try block, so the catch block handles it.
AttemptMalformed ==
  /\ fetch.pc = "attempt"
  /\ fetch' = CatchRetries([fetch EXCEPT !.requests = @ + 1,
                                         !.log = Append(@, Request("malformed"))],
                           MalformedMessage)
  /\ UNCHANGED <<minTransactions, batchConfig, reconVars, probe, cache, now, throttle, logs>>

\* Attempt i gets a response that is not ok.  A retriable status waits and
\* continues the loop, which after the last attempt ends without a return
\* value; another status throws inside the try block, so the catch block
\* handles it.
AttemptStatus ==
  /\ fetch.pc = "attempt"
  /\ \E status \in ErrorStatuses :
       LET f == [fetch EXCEPT !.requests = @ + 1,
                             !.log = Append(@, Request(ToString(status)))]
           message == "API error: " \o ToString(status)
           waited == [f EXCEPT !.log = Append(@, Wait(BackoffDelay(f.i)))]
       IN  IF status \in RETRIABLE_STATUS_CODES
           THEN IF fetch.i + 1 < Retries
                THEN /\ fetch' = [waited EXCEPT !.i = @ + 1]
                     /\ UNCHANGED cache
                ELSE /\ cache' = CacheSet(cache, Undefined, now)
                     /\ fetch' = [FetchDone(waited, WalletResult(Undefined), FALSE)
                                   EXCEPT !.end = "undefined"]
           ELSE /\ fetch' = CatchRetries(f, message)
                /\ UNCHANGED cache
  /\ UNCHANGED <<minTransactions, batchConfig, reconVars, probe, now, throttle, logs>>

\* Attempt i fails in fetch itself (network error, or the abort of the
\* request timeout): the catch block handles it.
AttemptThrows ==
  /\ fetch.pc = "attempt"
  /\ \E message \in (ThrowMessages \ {"API error: 500"}) \cup {AbortMessage} :
       fetch' = CatchRetries([fetch EXCEPT !.requests = @ + 1,
                                          !.log = Append(@, Request(IF message = AbortMessage
                                                                    THEN "timeout"
                                                                    ELSE "throw"))],
                             message)
  /\ UNCHANGED <<minTransactions, batchConfig, reconVars, probe, cache, now, throttle, logs>>

\* Time passes.
Tick ==
  /\ now < MaxClock
  /\ now' = now + 1
  /\ UNCHANGED <<minTransactions, batchConfig, reconVars, probe, cache, fetch, throttle, logs>>

(***************************************************************************)
(* The explorer service's throttle (waitForRateLimit) and the requests     *)
(* that leave the process                                                  *)
(***************************************************************************)
\* getRequestsPerSecond().
RequestsPerSecond == 2

\* `1000 / this.getRequestsPerSecond()`: the clock of the throttle
\* specification ticks once per minimum interval, so that one second is
\* RequestsPerSecond ticks.
MinInterval == 1

\* Concurrent callers of fetchWithRetry: processUser executions of a batch and
\* commands.
Callers == {"c1", "c2", "c3"}

\* lastRequestTime is 0 at construction, long before the first Date.now().
\* `started[t]` counts the requests that waitForRateLimit let start at tick t;
\* `sent` is the latest request that left the process, by any path.
IdleThrottle ==
  [lastRequestTime |-> 0 - MinInterval,
   callers |-> [c \in Callers |-> [pc |-> "idle", wakeAt |-> 0]],
   started |-> [t \in {} |-> 0],
   sent |-> [at |-> 0 - MinInterval, via |-> "none"]]

StartedAt(th, t) == IF t \in DOMAIN th.started THEN th.started[t] ELSE 0

\* waitForRateLimit has returned to fetchWithRetry at tick t:
\* `this.lastRequestTime = Date.now()`, then the request is sent.
PassThrottle(th, c, t) ==
  [th EXCEPT !.lastRequestTime = t,
             !.callers[c] = [pc |-> "sent", wakeAt |-> 0],
             !.started = [u \in DOMAIN th.started \cup {t} |->
                            StartedAt(th, u) + (IF u = t THEN 1 ELSE 0)],
             !.sent = [at |-> t, via |-> "fetchWithRetry"]]

\* A caller enters waitForRateLimit: it reads the clock and lastRequestTime,
\* and either goes on at once or sets a timer for the rest of the interval.
WaitForRateLimit(c) ==
  /\ throttle.callers[c].pc = "idle"
  /\ LET timeSinceLastRequest == now - throttle.lastRequestTime
     IN  throttle' =
           IF timeSinceLastRequest < MinInterval
           THEN [throttle EXCEPT !.callers[c] =
                   [pc |-> "waiting", wakeAt |-> now + (MinInterval - timeSinceLastRequest)]]
           ELSE PassThrottle(throttle, c, now)
  /\ UNCHANGED <<minTransactions, batchConfig, reconVars, probe, cache, fetch, now, logs>>

\* The timer of a waiting caller fires.
TimerFires(c) ==
  /\ throttle.callers[c].pc = "waiting"
  /\ now >= throttle.callers[c].wakeAt
  /\ throttle' = PassThrottle(throttle, c, now)
  /\ UNCHANGED <<minTransactions, batchConfig, reconVars, probe, cache, fetch, now, logs>>

\* The request of a caller is answered; the caller may call again.
RequestDone(c) ==
  /\ throttle.callers[c].pc = "sent"
  /\ throttle' = [throttle EXCEPT !.callers[c] = [pc |-> "idle", wakeAt |-> 0]]
  /\ UNCHANGED <<minTransactions, batchConfig, reconVars, probe, cache, fetch, now, logs>>

\* testConnection (the /stats command): `await fetch(url)` on the explorer's
\* txlistinternal endpoint.
TestConnection ==
  /\ throttle.sent # [at |-> now, via |-> "testConnection"]
  /\ throttle' = [throttle EXCEPT !.sent = [at |-> now, via |-> "testConnection"]]
  /\ UNCHANGED <<minTransactions, batchConfig, reconVars, probe, cache, fetch, now, logs>>

\* GensynApiService.verifyCodeAssist (verifyAll of /checkwallet and /verify):
\* `await axios.get(url, { timeout: 10000 })`.
VerifyCodeAssist ==
  /\ throttle.sent # [at |-> now, via |-> "verifyCodeAssist"]
  /\ throttle' = [throttle EXCEPT !.sent = [at |-> now, via |-> "verifyCodeAssist"]]
  /\ UNCHANGED <<minTransactions, batchConfig, reconVars, probe, cache, fetch, now, logs>>

\* Time passes; a timer that is due fires before the clock moves on.
ThrottleTick ==
  /\ \A c \in Callers :
       throttle.callers[c].pc = "waiting" => throttle.callers[c].wakeAt > now
  /\ Tick

(***************************************************************************)
(* The outcome logs (recordFailedVerification, recordSuccessfulVerification) *)
(***************************************************************************)
\* config.logging.maxLogEntries.
MaxLogEntries == 2

\* Entries the log specification records in each log.
MaxRecorded == 4

\* What tells one log line from another: the outcome it reports.
LogTexts == {"a", "b"}

\* The two log files, as their non-empty lines, and the history of the
\* entries recorded in each, oldest first.
EmptyLogs ==
  [failed |-> [file |-> <<>>, recorded |-> <<>>],
   success |-> [file |-> <<>>, recorded |-> <<>>]]

\* Array.prototype.slice(-n) for n > 0: the last n elements, or all of them.
SliceLast(lines, n) ==
  IF Len(lines) <= n THEN lines ELSE SubSeq(lines, Len(lines) - n + 1, Len(lines))

\* appendToLog(filePath, entry): fs.appendFileSync(filePath, entry + '\n').
appendToLog(lines, entry) == Append(lines, entry)

\* trimLogFile(filePath): the file is rewritten with its last maxEntries lines
\* when it has more.
MutTrimLogFile(lines, maxEntries) ==
  IF Len(lines) > maxEntries THEN SubSeq(lines, 1, maxEntries) ELSE lines

trimLogFile(lines, maxEntries) ==
  IF Len(lines) > maxEntries THEN SliceLast(lines, maxEntries) ELSE lines

\* recordFailedVerification / recordSuccessfulVerification on one log.
RecordIn(log, entry) ==
  [file |-> trimLogFile(appendToLog(log.file, entry), MaxLogEntries),
   recorded |-> Append(log.recorded, entry)]

recordFailedVerification(text) ==
  /\ Len(logs.failed.recorded) < MaxRecorded
  /\ logs' = [logs EXCEPT !.failed =
                RecordIn(@, [n |-> Len(@.recorded) + 1, kind |-> "FAILED", text |-> text])]
  /\ UNCHANGED <<minTransactions, batchConfig, reconVars, probe, cache, fetch, now, throttle>>

recordSuccessfulVerification(text) ==
  /\ Len(logs.success.recorded) < MaxRecorded
  /\ logs' = [logs EXCEPT !.success =
                RecordIn(@, [n |-> Len(@.recorded) + 1, kind |-> "SUCCESS", text |-> text])]
  /\ UNCHANGED <<minTransactions, batchConfig, reconVars, probe, cache, fetch, now, throttle>>

(***************************************************************************)
(* The reconciliation specification: one linked identity, its /verify      *)
(* command and the auto-verify worker                                      *)
(***************************************************************************)
\* config.performance.batchSize and config.autoVerify.maxBatchSize when the
\* environment sets neither.
DefaultBatchSize == 50

DefaultMaxBatchSize == 50

NoProbe == [kind |-> "none"]

Zeroes == [w \in Wallets |-> [c \in ContractIds |-> 0]]

\* The store after linkWallet for each of the first n wallets, nothing else
\* having run.
InitLinked(n) ==
  LET all == <<"w1", "w2", "w3">>
      ids == <<"d1", "d2", "d3">>
  IN  /\ walletOrder = SubSeq(all, 1, n)
      /\ data = [w \in Wallets |->
                   IF \E k \in 1..n : all[k] = w
                   THEN NewUserEntry(ids[CHOOSE k \in 1..n : all[k] = w])
                   ELSE NoUser]

InitRest ==
  /\ memberRoles = [d \in DiscordIds |-> {}]
  /\ cmd = [d \in DiscordIds |-> IdleCmd]
  /\ worker = IdleWorker
  /\ pu = [w \in Wallets |-> IdlePu]
  /\ recordCalls = Zeroes
  /\ announcements = Zeroes
  /\ lastPass = [w \in Wallets |-> None]
  /\ clean = [w \in Wallets |-> TRUE]
  /\ probe = NoProbe
  /\ cache = NoEntry
  /\ fetch = IdleFetch
  /\ now = 0
  /\ throttle = IdleThrottle
  /\ logs = EmptyLogs

Init ==
  /\ minTransactions = 0
  /\ batchConfig = [batchSize |-> DefaultBatchSize, maxBatchSize |-> DefaultMaxBatchSize]
  /\ InitLinked(1)
  /\ guildRoles = {"role1"}
  /\ InitRest

\* With one linked wallet a run has a single batch, so run() never reaches the
\* delay between batches; RunAfterDelay is a step of the batch specification.
Next ==
  \/ \E d \in DiscordIds : VerifyStart(d)
  \/ \E d \in DiscordIds : VerifyFetched(d)
  \/ \E d \in DiscordIds : VerifyGranted(d)
  \/ RunStart
  \/ \E w \in Wallets : PuFetched(w, ReconResponses)
  \/ \E w \in Wallets : PuRoleInfo(w)
  \/ \E w \in Wallets : PuAssigning(w)
  \/ \E w \in Wallets : PuAdded(w)
  \/ \E w \in Wallets : PuAnnounced(w)
  \/ RunBatchSettled

Spec == Init /\ [][Next]_vars

(***************************************************************************)
(* Properties of the reconciliation specification                          *)
(***************************************************************************)
NamesOf(list) == {list[k].name : k \in 1..Len(list)}

\* The targets a completed reconciliation found verified at its start while
\* the member held no role for them.
StartMissing(p) == {c \in p.startVerified : ContractRoleId(c) \notin p.startHeld}

\* C1: for every wallet and target, a step of /verify or of auto-verify that
\* starts with the stored record verified ends with it verified.
C1_VerifiedStaysVerified ==
  [][\A w \in Wallets : \A c \in ContractIds :
       isVerified(data, w, c) => isVerified(data', w, c)]_vars

\* A reconciliation found contract1 verified, fetched evidence that no longer
\* satisfies it (zero count or a failed fetch), and the record is verified.
C1_Witness ==
  \E w \in Wallets :
    /\ ~lastPass[w].none
    /\ "contract1" \in lastPass[w].startVerified
    /\ "contract1" \in Seen(lastPass[w].results) \ Sat(lastPass[w].results)
    /\ \E k \in 1..Len(lastPass[w].results) : lastPass[w].results[k].error = "fetch failed"
    /\ isVerified(data, w, "contract1")

\* C2: a completed reconciliation that ran alone and saw satisfying evidence
\* for a target not verified at its start has called recordVerification for
\* it, the record is verified, and the target is classified newly verified
\* (an entry of newlyVerified in /verify, one count of newVerifications in
\* auto-verify).
C2_NewlyVerifiedSamePass ==
  \A w \in Wallets :
    LET p == lastPass[w]
    IN  (~p.none /\ p.alone) =>
          \A c \in Sat(p.results) \ p.startVerified :
            /\ c \in p.recorded
            /\ isVerified(data, w, c)
            /\ p.by = "verify" => c \in NamesOf(p.newlyVerified)
            /\ p.by = "auto" => p.newCount = Cardinality(p.recorded)

\* C3: a completed reconciliation that ran alone, right after another one,
\* calls recordVerification for no target whose evidence is the same as in
\* the previous one, and /verify lists as already verified every target the
\* previous one recorded.
C3_SecondPassNothingNew ==
  \A w \in Wallets :
    LET p == lastPass[w]
    IN  (~p.none /\ p.alone /\ ~p.prev.none) =>
          \A c \in Seen(p.results) \cap p.prev.seen :
            ((c \in Sat(p.results)) <=> (c \in p.prev.sat)) =>
              /\ c \notin p.recorded
              /\ (c \in p.prev.recorded /\ p.by = "verify") =>
                   c \in NamesOf(p.alreadyVerified)
              /\ (c \in p.prev.recorded /\ p.by = "auto") =>
                   p.newCount = Cardinality(p.recorded)

\* The second of two /verify passes with satisfying evidence for contract1,
\* the first of which recorded it.
C3_Witness ==
  \E w \in Wallets :
    LET p == lastPass[w]
    IN  /\ ~p.none /\ p.alone /\ ~p.prev.none
        /\ "contract1" \in p.prev.recorded
        /\ "contract1" \in Sat(p.results)
        /\ "contract1" \in NamesOf(p.alreadyVerified)
        /\ recordCalls[w]["contract1"] = 1

C9_GrantAttemptedAgain ==
  \A w \in Wallets :
    LET p == lastPass[w]
    IN  (~p.none /\ p.alone /\ ~p.threw) =>
          \A c \in StartMissing(p) \cap Seen(p.results) :
            ContractRoleId(c) \in guildRoles => c \in p.grantTried

\* C10: a completed /verify that ran alone and found, at its start, a target
\* verified with the role not held lists the target as already verified with
\* hasRole false, and on no other list, whatever the fresh result is.
C10_StoredRecordDecides ==
  \A w \in Wallets :
    LET p == lastPass[w]
    IN  (~p.none /\ p.alone /\ p.by = "verify") =>
          \A c \in StartMissing(p) \cap Seen(p.results) :
            /\ \E k \in 1..Len(p.alreadyVerified) :
                 p.alreadyVerified[k].name = c /\ ~p.alreadyVerified[k].hasRole
            /\ c \notin NamesOf(p.newlyVerified)
            /\ c \notin NamesOf(p.failedVerifications)
            /\ c \notin p.recorded

\* A /verify found contract1 verified with the role missing while the fresh
\* fetch failed, and listed it as already verified.
C10_Witness ==
  \E w \in Wallets :
    LET p == lastPass[w]
    IN  /\ ~p.none /\ p.alone /\ p.by = "verify"
        /\ "contract1" \in StartMissing(p)
        /\ "contract1" \in Seen(p.results) \ Sat(p.results)
        /\ "contract1" \in NamesOf(p.alreadyVerified)

(***************************************************************************)
(* The fetch specification: checks of one wallet against the explorer      *)
(***************************************************************************)
NextFetch ==
  CheckStart \/ AttemptOk \/ AttemptMalformed \/ AttemptStatus \/ AttemptThrows \/ Tick

SpecFetch == Init /\ [][NextFetch]_vars

\* C7: a check that follows a check that ended in failure is not answered
\* from the cache (it issues an upstream request), and no cache entry holds
\* the outcome of a failed fetch.
C7_FailureNotCached ==
  /\ (fetch.pc = "done" /\ fetch.prevFailed) => (~fetch.fromCache /\ fetch.requests >= 1)
  /\ cache.present => WalletResult(cache.data).success

(***************************************************************************)
(* The threshold specification: one verification call on one upstream      *)
(* answer                                                                  *)
(***************************************************************************)
\* countTransactionsForContract of services/explorerApi.js: the number of
\* transactions to or from the contract.
explorerCountTransactionsForContract(transactions, addr) ==
  Len(SelectSeq(transactions, LAMBDA tx : tx.to = addr \/ tx.from = addr))

\* verifySingleContract of services/explorerApi.js, given what
\* getInternalTransactions returned.
explorerVerifySingleContract(fetched, c, cfgMin) ==
  LET minTxns == getMinTransactions(cfgMin)
      txnCount == explorerCountTransactionsForContract(fetched.transactions,
                                                       ContractAddress(c))
      contractTxns == SelectSeq(fetched.transactions,
                                LAMBDA tx : tx.to = ContractAddress(c)
                                            \/ tx.from = ContractAddress(c))
  IN  IF ~fetched.success THEN FailedResult(c, fetched.error)
      ELSE IF BelowThreshold(txnCount, minTxns)
      THEN [success |-> FALSE, contractId |-> c, roleId |-> ContractRoleId(c),
            txnCount |-> txnCount, error |-> BelowReason(txnCount, minTxns), hash |-> 0]
      ELSE [success |-> TRUE, contractId |-> c, roleId |-> ContractRoleId(c),
            txnCount |-> txnCount, error |-> "", hash |-> contractTxns[1].transactionHash]

\* Transaction lists of at most MaxTxns transactions.
TxSeqs == UNION {[1..n -> TxPool] : n \in 0..MaxTxns}

ThresholdResponses ==
  { [kind |-> "ok", transactions |-> t, message |-> ""] : t \in TxSeqs }
  \cup { [kind |-> "notfound", transactions |-> <<>>, message |-> ""] }
  \cup { [kind |-> "apierr", transactions |-> <<>>, message |-> m] : m \in ApiMessages }
  \cup { [kind |-> "throw", transactions |-> <<>>, message |-> m] : m \in ThrowMessages }

InitThreshold ==
  /\ minTransactions \in MinChoices
  /\ batchConfig = [batchSize |-> DefaultBatchSize, maxBatchSize |-> DefaultMaxBatchSize]
  /\ InitLinked(1)
  /\ guildRoles = {"role1"}
  /\ InitRest

\* verifyAllContracts(wallet) on an upstream answer.
ProbeVerifyAll ==
  /\ probe.kind = "none"
  /\ \E resp \in ThresholdResponses :
       LET fetched == getWalletInternalTransactions(resp)
       IN  probe' = [kind |-> "all", fetched |-> fetched,
                     results |-> verifyAllContracts(fetched, minTransactions)]
  /\ UNCHANGED <<minTransactions, batchConfig, reconVars, cache, fetch, now, throttle, logs>>

\* verifySingleContract(wallet, contract) of services/explorerApi.js on an
\* upstream answer.
ProbeVerifySingle ==
  /\ probe.kind = "none"
  /\ \E resp \in ThresholdResponses : \E c \in ContractIds :
       LET fetched == getWalletInternalTransactions(resp)
       IN  probe' = [kind |-> "single", fetched |-> fetched,
                     results |-> <<explorerVerifySingleContract(fetched, c, minTransactions)>>]
  /\ UNCHANGED <<minTransactions, batchConfig, reconVars, cache, fetch, now, throttle, logs>>

NextThreshold == ProbeVerifyAll \/ ProbeVerifySingle

SpecThreshold == InitThreshold /\ [][NextThreshold]_vars

\* C5: with minimum m, every result of a successful fetch is satisfied exactly
\* when its count is at least m.
C5_ThresholdInclusive ==
  (probe.kind # "none" /\ probe.fetched.success) =>
    \A k \in 1..Len(probe.results) :
      probe.results[k].success <=>
        probe.results[k].txnCount >= getMinTransactions(minTransactions)

\* One answer with exactly m transactions of contract1 (satisfied) and m - 1
\* of contract2 (unsatisfied).
C5_Witness ==
  /\ probe.kind = "all" /\ probe.fetched.success
  /\ probe.results[1].txnCount = getMinTransactions(minTransactions)
  /\ probe.results[1].success
  /\ probe.results[2].txnCount = getMinTransactions(minTransactions) - 1
  /\ ~probe.results[2].success

\* The only retry marking a result can carry: the 'retry later' reason.
IsRetryable(r) == r.error = RetryLater

\* C6: every result of a failed fetch is unsatisfied with a reason marked
\* retryable, and no unsatisfied result of a successful fetch carries that
\* marking.
C6_FailureMarkedRetryable ==
  probe.kind # "none" =>
    \A k \in 1..Len(probe.results) :
      IF probe.fetched.success
      THEN ~probe.results[k].success => ~IsRetryable(probe.results[k])
      ELSE ~probe.results[k].success /\ IsRetryable(probe.results[k])

(***************************************************************************)
(* The batch specification: auto-verify runs over three linked identities  *)
(***************************************************************************)
\* Settings of config.performance.batchSize and config.autoVerify.maxBatchSize:
\* two batches with the default cap, batches of one with a cap that stops
\* the run before the last identity, and a cap below the size of a batch.
BatchConfigs ==
  { [batchSize |-> 2, maxBatchSize |-> DefaultMaxBatchSize],
    [batchSize |-> 1, maxBatchSize |-> 2],
    [batchSize |-> 2, maxBatchSize |-> 1] }

\* Upstream answers of the batch specification: contract1 satisfied, or no
\* transaction at all.
BatchResponses ==
  { [kind |-> "ok", transactions |-> Bundle(DefaultMinTransactions, 0), message |-> ""],
    [kind |-> "notfound", transactions |-> <<>>, message |-> ""] }

InitBatch ==
  /\ minTransactions = 0
  /\ batchConfig \in BatchConfigs
  /\ InitLinked(3)
  /\ guildRoles = {"role1"}
  /\ InitRest

NextBatch ==
  \/ RunStart
  \/ \E w \in Wallets : PuFetched(w, BatchResponses)
  \/ \E w \in Wallets : PuRoleInfo(w)
  \/ \E w \in Wallets : PuAssigning(w)
  \/ \E w \in Wallets : PuAdded(w)
  \/ \E w \in Wallets : PuAnnounced(w)
  \/ RunBatchSettled
  \/ RunAfterDelay

\* Every await of a run returns or throws in the end.
SpecBatch == InitBatch /\ [][NextBatch]_vars /\ WF_vars(NextBatch)

\* The wallets a run over `batches` processes when nothing fails: batch k and,
\* unless it is the last one or the cap is reached, the batches after it.
RECURSIVE ExpectedProcessed(_, _, _, _)
ExpectedProcessed(batches, k, processed, cap) ==
  IF k > Len(batches) THEN {}
  ELSE {batches[k][j].wallet : j \in 1..Len(batches[k])}
       \cup (IF processed + Len(batches[k]) >= cap THEN {}
             ELSE ExpectedProcessed(batches, k + 1, processed + Len(batches[k]), cap))

RunEnded == worker.pc = "idle" /\ Len(worker.users) > 0

\* The result processUser returned for wallet w is the one its own answer and
\* its own record give; a thrown call counts one failed verification.
OwnResult(w) ==
  LET p == lastPass[w]
  IN  ~p.none =>
        IF p.threw
        THEN p.failedCount = 1 /\ p.newCount = 0
        ELSE /\ p.newCount = Cardinality(Sat(p.results) \ p.startVerified)
             /\ p.failedCount =
                  Cardinality((Seen(p.results) \ Sat(p.results)) \ p.startVerified)
             /\ \A c \in Sat(p.results) : isVerified(data, w, c)

\* C8: whoever throws, every identity a run processes gets its own result, a
\* thrown identity is counted as one failure, the run processes exactly the
\* identities it processes when nothing fails, its totals are the sums of the
\* results, and every run that starts ends.
C8_BatchIsolation ==
  /\ [](\A w \in Wallets : OwnResult(w))
  /\ [](RunEnded =>
          /\ worker.done = ExpectedProcessed(
                             createBatches(worker.users, batchConfig.batchSize), 1, 0,
                             batchConfig.maxBatchSize)
          /\ worker.processed = Cardinality(worker.done)
          /\ worker.failedVerifications =
               SumOver([w \in worker.done |-> lastPass[w].failedCount], worker.done)
          /\ worker.newVerifications =
               SumOver([w \in worker.done |-> lastPass[w].newCount], worker.done))
  /\ (worker.isRunning ~> ~worker.isRunning)

\* A run has ended in which w1 threw while w2, of the same batch, was newly
\* verified and w3, of the next batch, was processed.
C8_Witness ==
  /\ RunEnded
  /\ batchConfig.batchSize = 2
  /\ worker.done = Wallets
  /\ lastPass["w1"].threw
  /\ lastPass["w2"].newCount = 1 /\ isVerified(data, "w2", "contract1")
  /\ ~lastPass["w3"].threw
  /\ worker.failedVerifications >= 1

(***************************************************************************)
(* Properties of the reconciliation specification, continued               *)
(***************************************************************************)
\* C11: the record of a target is stored verified while its role grant is
\* under way, after the grant has failed or was not possible, and when the
\* reconciliation that recorded it is over.
C11_RecordedDespiteGrantFailure ==
  \A w \in Wallets :
    /\ pu[w].pc \in {"assigning", "adding", "announcing"} =>
         isVerified(data, w, pu[w].results[pu[w].i].contractId)
    /\ \A d \in DiscordIds :
         (cmd[d].pc = "granting" /\ cmd[d].wallet = w) =>
           isVerified(data, w, cmd[d].results[cmd[d].i].contractId)
    /\ ~lastPass[w].none => \A c \in lastPass[w].recorded : isVerified(data, w, c)

\* A /verify whose member.roles.add threw for contract1 and which recorded
\* contract2, whose role the guild lacks: both records are verified and the
\* member holds neither role.
C11_Witness ==
  \E w \in Wallets :
    LET p == lastPass[w]
    IN  /\ ~p.none /\ p.by = "verify"
        /\ \E k \in 1..Len(p.newlyVerified) :
             /\ p.newlyVerified[k].name = "contract1"
             /\ p.newlyVerified[k].error = "Failed to assign role"
        /\ "contract2" \in p.recorded
        /\ isVerified(data, w, "contract1") /\ isVerified(data, w, "contract2")
        /\ memberRoles[data[w].discordId] = {}

(***************************************************************************)
(* The link specification: /link and /admin-unlink against the store       *)
(***************************************************************************)
\* Addresses as users type them: the lower-case forms and two spellings with
\* capitals of the first two.
Addresses == Wallets \cup {"W1", "W2"}

\* String.prototype.toLowerCase on an address.
toLowerCase(a) ==
  CASE a = "W1" -> "w1"
    [] a = "W2" -> "w2"
    [] OTHER -> a

\* linkWallet's first check: the key `normalized` exists with another
\* discordId.
MutLinkedToAnother(db, normalized, discordId) == FALSE

LinkedToAnother(db, normalized, discordId) ==
  \E wallet \in DOMAIN db :
    db[wallet].linked /\ wallet = normalized /\ db[wallet].discordId # discordId

\* linkWallet's second check: getWalletByDiscordId(discordId) is not null.
MutExistingWallet(db, order, discordId) == "null"

ExistingWallet(db, order, discordId) == getWalletByDiscordId(db, order, discordId)

\* linkWallet(discordId, walletAddress): what it returns and the store it
\* leaves. A new key comes last in the key order.
MutLinkWallet(db, order, discordId, walletAddress) ==
  [result |-> [success |-> TRUE, error |-> "", wallet |-> "null"],
   data |-> [db EXCEPT ![toLowerCase(walletAddress)] = NewUserEntry(discordId)],
   order |-> IF SeqContains(order, toLowerCase(walletAddress)) THEN order
             ELSE Append(order, toLowerCase(walletAddress))]

linkWallet(db, order, discordId, walletAddress) ==
  LET normalized == toLowerCase(walletAddress)
      existingWallet == ExistingWallet(db, order, discordId)
  IN  IF LinkedToAnother(db, normalized, discordId)
      THEN [result |-> [success |-> FALSE, error |-> "Wallet already linked to another user",
                        wallet |-> "null"],
            data |-> db, order |-> order]
      ELSE IF existingWallet # "null"
      THEN [result |-> [success |-> FALSE, error |-> "You already have a wallet linked",
                        wallet |-> existingWallet],
            data |-> db, order |-> order]
      ELSE [result |-> [success |-> TRUE, error |-> "", wallet |-> "null"],
            data |-> [db EXCEPT ![normalized] = NewUserEntry(discordId)],
            order |-> IF SeqContains(order, normalized) THEN order
                      ELSE Append(order, normalized)]

\* getUserByWallet(walletAddress): the key of the entry found, or null.
getUserByWallet(db, walletAddress) ==
  IF db[toLowerCase(walletAddress)].linked THEN toLowerCase(walletAddress) ELSE "null"

\* removeUser(address): the entry of the address, with its whole record set,
\* leaves the store; the other entries stay as they are.
removeUser(db, order, walletAddress) ==
  LET normalized == toLowerCase(walletAddress)
  IN  [data |-> [db EXCEPT ![normalized] = NoUser],
       order |-> SelectSeq(order, LAMBDA w : w # normalized)]

\* The calls made so far, as the link specification remembers them: the last
\* call and the addresses that were unlinked at some time.
NoCall == [kind |-> "none", removed |-> {}]

\* /link by discordId with a well-formed address.
LinkWallet(discordId, walletAddress) ==
  LET r == linkWallet(data, walletOrder, discordId, walletAddress)
  IN  /\ data' = r.data
      /\ walletOrder' = r.order
      /\ probe' = [kind |-> "link", discordId |-> discordId, address |-> walletAddress,
                   result |-> r.result, removed |-> probe.removed]
      /\ UNCHANGED <<minTransactions, batchConfig, memberRoles, guildRoles, cmd, worker,
                     pu, recordCalls, announcements, lastPass, clean, cache, fetch, now, throttle, logs>>

\* The removal at the end of /admin-unlink, for the address found.
Unlinked(address) ==
  LET r == removeUser(data, walletOrder, address)
  IN  /\ data' = r.data
      /\ walletOrder' = r.order
      /\ probe' = [kind |-> "unlink", found |-> TRUE, address |-> address,
                   user |-> data[toLowerCase(address)],
                   removed |-> probe.removed \cup {toLowerCase(address)}]

NotFound(address) ==
  /\ probe' = [kind |-> "unlink", found |-> FALSE, address |-> address,
               removed |-> probe.removed]
  /\ UNCHANGED <<data, walletOrder>>

\* /admin-unlink user: the target's wallet is looked up by Discord id.
AdminUnlinkUser(target) ==
  LET wallet == getWalletByDiscordId(data, walletOrder, target)
  IN  /\ IF wallet = "null" THEN NotFound("null") ELSE Unlinked(wallet)
      /\ UNCHANGED <<minTransactions, batchConfig, memberRoles, guildRoles, cmd, worker,
                     pu, recordCalls, announcements, lastPass, clean, cache, fetch, now, throttle, logs>>

\* /admin-unlink address: the entry is looked up by the address as typed.
AdminUnlinkAddress(address) ==
  /\ IF getUserByWallet(data, address) = "null" THEN NotFound(address)
     ELSE Unlinked(address)
  /\ UNCHANGED <<minTransactions, batchConfig, memberRoles, guildRoles, cmd, worker,
                 pu, recordCalls, announcements, lastPass, clean, cache, fetch, now, throttle, logs>>

\* What /verify and processUser write for a linked wallet whose contract c is
\* satisfied and not yet verified: recordVerification with the role of c.
RecordVerified(w, c) ==
  /\ data[w].linked
  /\ ~isVerified(data, w, c)
  /\ data' = recordVerification(data, w, c, ContractRoleId(c), DefaultMinTransactions, Now)
  /\ probe' = [kind |-> "record", address |-> w, contractId |-> c,
               removed |-> probe.removed]
  /\ UNCHANGED <<minTransactions, batchConfig, walletOrder, memberRoles, guildRoles, cmd,
                 worker, pu, recordCalls, announcements, lastPass, clean, cache, fetch, now,
                 throttle, logs>>

\* An empty store; its keys may be any spelling of an address.
InitLink ==
  /\ minTransactions = 0
  /\ batchConfig = [batchSize |-> DefaultBatchSize, maxBatchSize |-> DefaultMaxBatchSize]
  /\ data = [a \in Addresses |-> NoUser]
  /\ walletOrder = <<>>
  /\ guildRoles = {"role1"}
  /\ memberRoles = [d \in DiscordIds |-> {}]
  /\ cmd = [d \in DiscordIds |-> IdleCmd]
  /\ worker = IdleWorker
  /\ pu = [w \in Wallets |-> IdlePu]
  /\ recordCalls = Zeroes
  /\ announcements = Zeroes
  /\ lastPass = [w \in Wallets |-> None]
  /\ clean = [w \in Wallets |-> TRUE]
  /\ probe = NoCall
  /\ cache = NoEntry
  /\ fetch = IdleFetch
  /\ now = 0
  /\ throttle = IdleThrottle
  /\ logs = EmptyLogs

NextLink ==
  \/ \E d \in DiscordIds, a \in Addresses : LinkWallet(d, a)
  \/ \E d \in DiscordIds : AdminUnlinkUser(d)
  \/ \E a \in Addresses : AdminUnlinkAddress(a)

SpecLink == InitLink /\ [][NextLink]_vars

\* C12: whatever links and unlinks were made, two different keys of the store
\* never spell the same address and never belong to the same Discord account.
C12_LinkOneToOne ==
  \A a, b \in Addresses :
    (a # b /\ data[a].linked /\ data[b].linked) =>
      /\ toLowerCase(a) # toLowerCase(b)
      /\ data[a].discordId # data[b].discordId

\* An address that was unlinked is linked again, to another account than the
\* one that has just been refused it under a spelling with capitals.
C12_Witness ==
  /\ probe.kind = "link" /\ probe.address = "W1" /\ ~probe.result.success
  /\ "w1" \in probe.removed
  /\ data["w1"].linked /\ data["w1"].discordId # probe.discordId
  /\ data["w2"].linked

\* C13: a /link whose address is bound to another Discord account, or whose
\* account already has a bound address, is answered with success = false and
\* an error, and the store after it is the store before it.
C13_RejectedLinkChangesNothing ==
  [][ \A d \in DiscordIds, a \in Addresses :
        ( /\ probe'.kind = "link" /\ probe'.discordId = d /\ probe'.address = a
          /\ \/ \E k \in Addresses :
                  /\ data[k].linked /\ toLowerCase(k) = toLowerCase(a)
                  /\ data[k].discordId # d
             \/ \E k \in Addresses : data[k].linked /\ data[k].discordId = d )
        => /\ probe'.result.success = FALSE
           /\ probe'.result.error # ""
           /\ data' = data
           /\ walletOrder' = walletOrder ]_vars

\* Both refusals have happened: the last /link was refused because the account
\* has an address, in a store where another account holds the address asked for.
C13_Witness ==
  /\ probe.kind = "link" /\ ~probe.result.success
  /\ probe.result.error = "You already have a wallet linked"
  /\ probe.result.wallet # toLowerCase(probe.address)
  /\ \E k \in Addresses : data[k].linked /\ data[k].discordId # probe.discordId

(***************************************************************************)
(* Properties of the fetch specification: the retry loop                   *)
(***************************************************************************)
\* The upstream requests of the call in flight or last completed, in order.
RequestsOf(f) == SelectSeq(f.log, LAMBDA x : x.e = "request")

\* C14: a call whose first two attempts get HTTP 503 and whose third attempt
\* gets an ok response returns that response without raising, and has waited
\* 1000 ms before the second attempt and 2000 ms before the third.
C14_RetryThenSuccess ==
  LET reqs == RequestsOf(fetch)
  IN  ( /\ Len(reqs) = 3
        /\ reqs[1].outcome = "503" /\ reqs[2].outcome = "503" /\ reqs[3].outcome = "ok" )
      => /\ fetch.log = <<Request("503"), Wait(1000), Request("503"), Wait(2000),
                          Request("ok")>>
         /\ fetch.pc = "done" /\ fetch.end = "returned"
         /\ ~fetch.fromCache /\ fetch.requests = 3

C14_Witness ==
  /\ fetch.end = "returned" /\ fetch.result.success
  /\ Len(fetch.log) = 5
  /\ fetch.log[1] = Request("503") /\ fetch.log[3] = Request("503")
  /\ fetch.log[5] = Request("ok")

\* C15: a call whose attempt fails with an HTTP error status other than
\* 429/502/503/504, or with a malformed payload, ends there: it raises after
\* exactly one upstream request and without a backoff wait.
C15_NonTransientFailsAtOnce ==
  LET reqs == RequestsOf(fetch)
  IN  (Len(reqs) >= 1 /\ reqs[1].outcome \in {"404", "500", "malformed"}) =>
        /\ fetch.log = <<reqs[1]>>
        /\ fetch.pc = "done" /\ fetch.end = "threw"

\* C16: a call whose every attempt fails transiently (HTTP 429/502/503/504,
\* or the request timeout) makes Retries attempts and then raises the last
\* error instead of returning a value.
C16_ExhaustedRetriesRaise ==
  LET reqs == RequestsOf(fetch)
      Transient == {ToString(st) : st \in RETRIABLE_STATUS_CODES} \cup {"timeout"}
  IN  /\ (\A k \in 1..Len(reqs) : reqs[k].outcome \in Transient) => Len(reqs) <= Retries
      /\ ( /\ fetch.pc = "done" /\ ~fetch.fromCache
           /\ \A k \in 1..Len(reqs) : reqs[k].outcome \in Transient )
         => /\ Len(reqs) = Retries
            /\ fetch.end = "threw"
            /\ ~fetch.result.success

(***************************************************************************)
(* The throttle specification: concurrent callers of waitForRateLimit and  *)
(* the requests sent without it                                            *)
(***************************************************************************)
NextThrottle ==
  \/ \E c \in Callers : WaitForRateLimit(c)
  \/ \E c \in Callers : TimerFires(c)
  \/ \E c \in Callers : RequestDone(c)
  \/ TestConnection
  \/ VerifyCodeAssist
  \/ ThrottleTick

SpecThrottle == Init /\ [][NextThrottle]_vars

RECURSIVE StartedIn(_, _, _)
\* The requests waitForRateLimit let start at the n ticks from t on.
StartedIn(th, t, n) ==
  IF n = 0 THEN 0 ELSE StartedAt(th, t) + StartedIn(th, t + 1, n - 1)

\* C17: in every window of one second (RequestsPerSecond ticks of the
\* minimum interval) at most RequestsPerSecond requests have started,
\* whatever the interleaving of the callers of waitForRateLimit.
C17_AtMostNPerSecond ==
  \A t \in 0..MaxClock :
    StartedIn(throttle, t, RequestsPerSecond * MinInterval) <= RequestsPerSecond

\* C18: the throttle state knows of every request that has left the process:
\* the latest one was sent by fetchWithRetry after waitForRateLimit, which
\* set lastRequestTime to the time it was sent at.
C18_EveryRequestThrottled ==
  throttle.sent.via # "none" =>
    /\ throttle.sent.via = "fetchWithRetry"
    /\ throttle.lastRequestTime = throttle.sent.at

(***************************************************************************)
(* Properties of the batch specification, continued                        *)
(***************************************************************************)
\* C19: the identities a run has processed are never more than
\* config.autoVerify.maxBatchSize.
C19_ProcessedWithinCap ==
  /\ worker.processed <= batchConfig.maxBatchSize
  /\ Cardinality(worker.done) <= batchConfig.maxBatchSize

\* The wallets of the batch the run is at.
CurrentBatch == BatchWallets(worker.users, batchConfig.batchSize, worker.batchIndex)

\* C20: while the run awaits a batch, every identity of that batch has been
\* started and no identity of another batch is in flight; between batches
\* and outside a run no identity is in flight, so a batch starts only when
\* the one before it has settled as a whole.
C20_BatchesOneAfterAnother ==
  IF worker.pc = "batch"
  THEN /\ \A w \in CurrentBatch : PuInFlight(w) \/ Settled(w)
       /\ \A w \in Wallets \ CurrentBatch : pu[w].pc = "idle"
       /\ \A k \in 0..(worker.batchIndex - 1) :
            BatchWallets(worker.users, batchConfig.batchSize, k) \subseteq worker.done
  ELSE \A w \in Wallets : pu[w].pc = "idle"

\* The second batch of a run is under way, its identity in flight, with both
\* identities of the first batch done.
C20_Witness ==
  /\ worker.pc = "batch" /\ worker.batchIndex = 1 /\ batchConfig.batchSize = 2
  /\ worker.done = {"w1", "w2"}
  /\ PuInFlight("w3")

(***************************************************************************)
(* The batch specification when the provider may stay silent               *)
(***************************************************************************)
\* The steps of a run that do not wait for the explorer: timers and Discord
\* calls.  getInternalTransactions of services/explorerApi.js awaits
\* fetch(url) with no signal and no timer, so nothing in the process ends a
\* verifyAllContracts call the explorer never answers.
NextLocal ==
  \/ RunStart
  \/ \E w \in Wallets : PuRoleInfo(w)
  \/ \E w \in Wallets : PuAssigning(w)
  \/ \E w \in Wallets : PuAdded(w)
  \/ \E w \in Wallets : PuAnnounced(w)
  \/ RunBatchSettled
  \/ RunAfterDelay

\* The explorer answers when it answers, if ever; every other await of a run
\* returns or throws in the end.
SpecSilent == InitBatch /\ [][NextBatch]_vars /\ WF_vars(NextLocal)

\* C21: every run that starts ends, isRunning going back to false, also when
\* the explorer leaves a call unanswered.
C21_RunTerminates == (worker.isRunning = TRUE) ~> (worker.isRunning = FALSE)

(***************************************************************************)
(* Properties of the reconciliation specification: the /verify report and  *)
(* the stored entry                                                        *)
(***************************************************************************)
\* The entries of a category list that are about contract c.
EntriesFor(list, c) == Len(SelectSeq(list, LAMBDA e : e.name = c))

\* C22: in the report of a completed /verify every contract that was checked
\* is in exactly one of newlyVerified, alreadyVerified (with or without the
\* role held) and failedVerifications, and in it once.
C22_EveryTargetInOneCategory ==
  \A w \in Wallets :
    (~lastPass[w].none /\ lastPass[w].by = "verify") =>
      \A c \in Seen(lastPass[w].results) :
        EntriesFor(lastPass[w].newlyVerified, c)
          + EntriesFor(lastPass[w].alreadyVerified, c)
          + EntriesFor(lastPass[w].failedVerifications, c) = 1

C24_LastCheckedAlwaysUpdated ==
  \A w \in Wallets :
    (~lastPass[w].none /\ data[w].linked) => data[w].lastCheckedAt = Now

\* C25: the step that starts a /verify of a linked user adds one to the
\* attempts of the user's wallet, and no other step changes any attempts
\* counter.
C25_AttemptsCountVerifyInvocations ==
  [][ \A w \in Wallets :
        data[w].linked =>
          /\ data'[w].linked
          /\ data'[w].attempts =
               data[w].attempts
                 + Cardinality({d \in DiscordIds :
                                  /\ cmd[d].pc = "idle" /\ cmd'[d].pc = "fetching"
                                  /\ cmd'[d].wallet = w}) ]_vars

(***************************************************************************)
(* The log specification: entries recorded in the two outcome logs         *)
(***************************************************************************)
NextLog ==
  \/ \E text \in LogTexts : recordFailedVerification(text)
  \/ \E text \in LogTexts : recordSuccessfulVerification(text)

SpecLog == Init /\ [][NextLog]_vars

\* The last n entries of a history, oldest first.
MostRecent(recorded, n) ==
  [k \in 1..(IF Len(recorded) < n THEN Len(recorded) ELSE n) |->
     recorded[Len(recorded) - (IF Len(recorded) < n THEN Len(recorded) ELSE n) + k]]

\* C26: each log file holds at most maxLogEntries entries, and they are the
\* entries recorded last, in the order they were recorded.
C26_LogKeepsMostRecent ==
  \A name \in {"failed", "success"} :
    /\ Len(logs[name].file) <= MaxLogEntries
    /\ logs[name].file = MostRecent(logs[name].recorded, MaxLogEntries)

\* More entries than the log keeps were recorded in both logs.
C26_Witness ==
  /\ Len(logs.failed.recorded) > MaxLogEntries + 1
  /\ Len(logs.success.recorded) > MaxLogEntries
  /\ Len(logs.failed.file) = MaxLogEntries
  /\ logs.failed.file[1].n = Len(logs.failed.recorded) - MaxLogEntries + 1


(***************************************************************************)
(* The store specification: what leaves the store                          *)
(***************************************************************************)
\* The store specification: two accounts and two addresses, one of them also
\* spelled with capitals, under /link, /admin-unlink and the verification
\* writes.
StoreAccounts == {"d1", "d2"}

StoreAddresses == {"w1", "W1", "w2"}

NextStore ==
  \/ \E d \in StoreAccounts, a \in StoreAddresses : LinkWallet(d, a)
  \/ \E d \in StoreAccounts : AdminUnlinkUser(d)
  \/ \E a \in StoreAddresses : AdminUnlinkAddress(a)
  \/ \E a \in StoreAddresses, c \in ContractIds : RecordVerified(toLowerCase(a), c)

SpecStore == InitLink /\ [][NextStore]_vars

\* Everything the entry `before` holds is still in the entry `after`: the
\* account, the verified records with their counts and time stamps, the role
\* ids and the attempts made.
Keeps(before, after) ==
  /\ after.linked
  /\ after.discordId = before.discordId
  /\ \A c \in ContractIds :
       before.verifications[c].verified => after.verifications[c] = before.verifications[c]
  /\ \A k \in 1..Len(before.roles) : SeqContains(after.roles, before.roles[k])
  /\ after.attempts >= before.attempts

\* C27: a step of /link or of a verification write leaves every entry of the
\* store with all it held; an entry leaves the store only in a step of the
\* administrative unlink that found it, and it leaves whole: nothing of the
\* entry is kept under its key or in the key order.
C27_OnlyUnlinkRemoves ==
  [][ \A k \in Addresses :
        data[k].linked =>
          \/ Keeps(data[k], data'[k])
          \/ /\ probe'.kind = "unlink" /\ probe'.found
             /\ toLowerCase(probe'.address) = k
             /\ data'[k] = NoUser
             /\ ~SeqContains(walletOrder', k)
             /\ \A j \in Addresses \ {k} : data'[j] = data[j] ]_vars

\* An entry with both verification records and both role ids has just been
\* unlinked, while another entry with a record stays in the store.
C27_Witness ==
  /\ probe.kind = "unlink" /\ probe.found
  /\ probe.user.verifications["contract1"].verified
  /\ probe.user.verifications["contract2"].verified
  /\ Len(probe.user.roles) = 2
  /\ data[toLowerCase(probe.address)] = NoUser
  /\ \E w \in Wallets : data[w].linked /\ data[w].verifications["contract1"].verified


(***************************************************************************)
(* The evidence specification: reads of one wallet's internal transactions *)
(* through the explorer service's cache (getInternalTransactions)          *)
(***************************************************************************)
\* isCacheValid(cacheEntry) at the time t of Date.now().
MutIsCacheValid(cacheEntry, t) ==
  cacheEntry.present /\ (t - cacheEntry.timestamp) <= CacheTTL

isCacheValid(cacheEntry, t) ==
  cacheEntry.present /\ (t - cacheEntry.timestamp) < CacheTTL

\* Messages of the errors a request ends with: a response that is not ok, and
\* a network failure.
RequestErrors == {"API request failed with status 500", "fetch failed"}

\* getInternalTransactions up to its first await: the cached bundle when the
\* entry is valid, otherwise on to waitForRateLimit and fetch.  `probe`
\* remembers the time of the read and the entry it found.
ReadStart ==
  /\ fetch.pc \in {"idle", "done"}
  /\ probe' = [kind |-> "read", at |-> now, entry |-> cache]
  /\ fetch' = IF isCacheValid(cache, now)
              THEN FetchDone(IdleFetch,
                             [success |-> TRUE, transactions |-> cache.data, error |-> ""],
                             TRUE)
              ELSE [IdleFetch EXCEPT !.pc = "attempt"]
  /\ UNCHANGED <<minTransactions, batchConfig, reconVars, cache, now, throttle, logs>>

\* The request is answered with a JSON payload: a result list or the
\* 'No transactions found' answer is cached and returned, another payload
\* throws its message.
ReadAnswered ==
  /\ fetch.pc = "attempt"
  /\ \E d \in Payloads :
       LET f == [fetch EXCEPT !.requests = @ + 1, !.log = Append(@, Request(d.kind))]
       IN  IF d.kind = "apierr"
           THEN /\ fetch' = FetchDone(f, getWalletInternalTransactions(d), FALSE)
                /\ UNCHANGED cache
           ELSE /\ cache' = CacheSet(cache, d.transactions, now)
                /\ fetch' = FetchDone(f, [success |-> TRUE, transactions |-> d.transactions,
                                          error |-> ""], FALSE)
  /\ UNCHANGED <<minTransactions, batchConfig, reconVars, probe, now, throttle, logs>>

\* The request fails or its response is not ok: the catch block returns the
\* failure and the cache is left alone.
ReadFails ==
  /\ fetch.pc = "attempt"
  /\ \E message \in RequestErrors :
       fetch' = FetchDone([fetch EXCEPT !.requests = @ + 1,
                                        !.log = Append(@, Request("throw"))],
                          [success |-> FALSE, transactions |-> <<>>, error |-> message],
                          FALSE)
  /\ UNCHANGED <<minTransactions, batchConfig, reconVars, probe, cache, now, throttle, logs>>

NextEvidence == ReadStart \/ ReadAnswered \/ ReadFails \/ Tick

SpecEvidence == Init /\ [][NextEvidence]_vars

\* C28: a finished read was answered from the cache exactly when the entry it
\* found was younger than the TTL, and then it made no request and returned
\* the entry's bundle; otherwise it made a request.  The cache changes only in
\* the step that ends such a request, by storing a new entry: no step removes
\* an entry, and the passing of time leaves the cache alone.
C28_CacheReadByAge ==
  /\ [](( probe.kind = "read" /\ fetch.pc = "done" ) =>
          LET young == /\ probe.entry.present
                       /\ probe.at - probe.entry.timestamp < CacheTTL
          IN  /\ fetch.fromCache <=> young
              /\ young => /\ fetch.requests = 0
                          /\ fetch.result = [success |-> TRUE,
                                             transactions |-> probe.entry.data,
                                             error |-> ""]
              /\ ~young => fetch.requests = 1)
  /\ [][ cache' # cache =>
           /\ fetch.pc = "attempt" /\ fetch'.pc = "done"
           /\ ~fetch'.fromCache
           /\ cache'.present /\ cache'.timestamp = now ]_vars

\* A read found an entry whose age is exactly the TTL, went upstream and
\* returned another bundle than the entry's.
C28_Witness ==
  /\ probe.kind = "read" /\ fetch.pc = "done"
  /\ probe.entry.present
  /\ probe.at - probe.entry.timestamp = CacheTTL
  /\ ~fetch.fromCache /\ fetch.requests = 1
  /\ fetch.result.success
  /\ fetch.result.transactions # probe.entry.data


(***************************************************************************)
(* The grant specification: role grants repeated on the members of the    *)
(* guild, by assignRole and by the grant branch of /verify                 *)
(***************************************************************************)
\* assignRole(discordId, roleId) in the configured guild, for a member whose
\* roles are `held`: `found` tells whether guild.members.fetch gave the
\* member, `addOk` whether member.roles.add resolved.  `addCalled` tells
\* whether member.roles.add was called, `stored` whether addUserRole was.
MutAssignRole(held, guild, found, addOk, roleId) ==
  IF ~found \/ roleId \notin guild \/ ~addOk
  THEN [result |-> FALSE, held |-> held, addCalled |-> found /\ roleId \in guild,
        stored |-> FALSE]
  ELSE [result |-> TRUE, held |-> held \cup {roleId}, addCalled |-> TRUE, stored |-> TRUE]

assignRole(held, guild, found, addOk, roleId) ==
  IF ~found
  THEN [result |-> FALSE, held |-> held, addCalled |-> FALSE, stored |-> FALSE]
  ELSE IF roleId \in held
  THEN [result |-> TRUE, held |-> held, addCalled |-> FALSE, stored |-> FALSE]
  ELSE IF roleId \in guild
  THEN IF addOk
       THEN [result |-> TRUE, held |-> held \cup {roleId}, addCalled |-> TRUE,
             stored |-> TRUE]
       ELSE [result |-> FALSE, held |-> held, addCalled |-> TRUE, stored |-> FALSE]
  ELSE [result |-> FALSE, held |-> held, addCalled |-> FALSE, stored |-> FALSE]

\* The grant branch of /verify for a satisfied target with role roleId:
\* `entry` is what it pushes on newlyVerified ("new": isNew, "had": not isNew,
\* "error": the failed grant, "none": nothing).
verifyGrant(held, guild, addOk, roleId) ==
  IF roleId \in guild /\ roleId \notin held
  THEN IF addOk
       THEN [held |-> held \cup {roleId}, addCalled |-> TRUE, entry |-> "new"]
       ELSE [held |-> held, addCalled |-> TRUE, entry |-> "error"]
  ELSE IF roleId \in held
  THEN [held |-> held, addCalled |-> FALSE, entry |-> "had"]
  ELSE [held |-> held, addCalled |-> FALSE, entry |-> "none"]

\* The worker grants roleId to the member d.  `probe` remembers the call, the
\* member's roles before it and what it did.
AssignRole(d, roleId) ==
  /\ \E found, addOk \in BOOLEAN :
       LET o == assignRole(memberRoles[d], guildRoles, found, addOk, roleId)
           wallet == getWalletByDiscordId(data, walletOrder, d)
       IN  /\ memberRoles' = [memberRoles EXCEPT ![d] = o.held]
           /\ data' = IF o.stored /\ wallet # "null"
                      THEN addUserRole(data, wallet, roleId) ELSE data
           /\ probe' = [kind |-> "assignRole", discordId |-> d, roleId |-> roleId,
                        before |-> memberRoles[d], found |-> found,
                        addCalled |-> o.addCalled, result |-> o.result, entry |-> "none"]
  /\ UNCHANGED <<minTransactions, batchConfig, walletOrder, guildRoles, cmd, worker, pu,
                 recordCalls, announcements, lastPass, clean, cache, fetch, now, throttle,
                 logs>>

\* /verify grants roleId to its caller d, whose member object it holds.
VerifyAssign(d, roleId) ==
  /\ \E addOk \in BOOLEAN :
       LET o == verifyGrant(memberRoles[d], guildRoles, addOk, roleId)
       IN  /\ memberRoles' = [memberRoles EXCEPT ![d] = o.held]
           /\ probe' = [kind |-> "verify", discordId |-> d, roleId |-> roleId,
                        before |-> memberRoles[d], found |-> TRUE,
                        addCalled |-> o.addCalled, result |-> o.entry # "error",
                        entry |-> o.entry]
  /\ UNCHANGED <<minTransactions, batchConfig, data, walletOrder, guildRoles, cmd, worker,
                 pu, recordCalls, announcements, lastPass, clean, cache, fetch, now,
                 throttle, logs>>

\* The guild with both roles, so that each can be granted and granted again.
InitGrant ==
  /\ minTransactions = 0
  /\ batchConfig = [batchSize |-> DefaultBatchSize, maxBatchSize |-> DefaultMaxBatchSize]
  /\ InitLinked(1)
  /\ guildRoles = Roles
  /\ InitRest

NextGrant ==
  \/ \E d \in DiscordIds, roleId \in Roles : AssignRole(d, roleId)
  \/ \E d \in DiscordIds, roleId \in Roles : VerifyAssign(d, roleId)

SpecGrant == InitGrant /\ [][NextGrant]_vars

\* C29: a grant of a role the member holds, by assignRole with the member
\* fetched or by /verify, does not call member.roles.add, reports success
\* (assignRole returns true, /verify lists the target as not new and without
\* error), and leaves the member's roles as they were.
C29_GrantOfHeldRoleIsNoOp ==
  ( /\ probe.kind \in {"assignRole", "verify"}
    /\ probe.found
    /\ probe.roleId \in probe.before )
  => /\ ~probe.addCalled
     /\ probe.result = TRUE
     /\ probe.kind = "verify" => probe.entry = "had"
     /\ memberRoles[probe.discordId] = probe.before

\* assignRole has just returned true for a role a member held, along with
\* another role, after grants made before.
C29_Witness ==
  /\ probe.kind = "assignRole" /\ probe.found
  /\ probe.roleId \in probe.before
  /\ probe.before = Roles
  /\ probe.result = TRUE /\ ~probe.addCalled
  /\ memberRoles[probe.discordId] = Roles


(***************************************************************************)
(* The roles specification: /verify against auto-verify, with /link called *)
(* for the address that is linked                                          *)
(***************************************************************************)
\* /link by d for the address a, where a spells an address the store holds:
\* linkWallet, whose answer is not looked at here.
LinkAgain(d, a) ==
  /\ data[toLowerCase(a)].linked
  /\ LET r == linkWallet(data, walletOrder, d, a)
     IN  /\ data' = r.data
         /\ walletOrder' = r.order
  /\ UNCHANGED <<minTransactions, batchConfig, memberRoles, guildRoles, cmd, worker, pu,
                 recordCalls, announcements, lastPass, clean, serviceVars>>

NextRoles ==
  \/ Next
  \/ \E d \in StoreAccounts, a \in {"w1", "W1"} : LinkAgain(d, a)

SpecRoles == Init /\ [][NextRoles]_vars

\* C30: no step of /verify, of auto-verify or of /link takes a role from a
\* member, or takes an entry or a role id of its stored roles list away: the
\* list after the step begins with the list before it.
C30_RolesOnlyGrow ==
  [][ /\ \A d \in DiscordIds : memberRoles[d] \subseteq memberRoles'[d]
      /\ \A w \in Wallets :
           data[w].linked =>
             /\ data'[w].linked
             /\ Len(data'[w].roles) >= Len(data[w].roles)
             /\ SubSeq(data'[w].roles, 1, Len(data[w].roles)) = data[w].roles ]_vars

\* A reconciliation has ended that found contract1 not satisfied, with role1
\* still in the stored list and still held by the member.
C30_Witness ==
  \E w \in Wallets :
    LET p == lastPass[w]
    IN  /\ ~p.none
        /\ "contract1" \in Seen(p.results) \ Sat(p.results)
        /\ "contract1" \in p.startVerified
        /\ data[w].linked
        /\ SeqContains(data[w].roles, "role1")
        /\ "role1" \in memberRoles[data[w].discordId]
        /\ "role1" \in p.startHeld


(***************************************************************************)
(* The timer specification: ticks of the worker's interval timer against   *)
(* runs that end, are cut by the cap, or throw                             *)
(***************************************************************************)
\* A tick has found a run in progress.
Skipped == [kind |-> "skipped"]

\* run() called by the timer while isRunning is set: it returns at once.
\* `probe` remembers that such a tick has happened.
RunSkipped ==
  /\ worker.isRunning
  /\ probe' = Skipped
  /\ UNCHANGED <<minTransactions, batchConfig, reconVars, cache, fetch, now, throttle, logs>>

\* An error is thrown inside run()'s try block, after Promise.allSettled or
\* the delay has returned: the catch block logs it and the finally block
\* clears isRunning.  The results of the batch are not added up.
MutRunThrows ==
  /\ worker.isRunning
  /\ worker.pc = "delay"
  /\ worker' = [worker EXCEPT !.pc = "idle"]
  /\ UNCHANGED <<minTransactions, batchConfig, data, walletOrder, memberRoles, guildRoles,
                 cmd, pu, recordCalls, announcements, lastPass, clean, serviceVars>>

RunThrows ==
  /\ worker.isRunning
  /\ \/ /\ worker.pc = "delay"
        /\ UNCHANGED pu
     \/ /\ worker.pc = "batch"
        /\ LET ws == BatchWallets(worker.users, batchConfig.batchSize, worker.batchIndex)
           IN  /\ \A w \in ws : Settled(w)
               /\ pu' = [w \in Wallets |-> IF w \in ws THEN IdlePu ELSE pu[w]]
  /\ worker' = [worker EXCEPT !.pc = "idle", !.isRunning = FALSE]
  /\ UNCHANGED <<minTransactions, batchConfig, data, walletOrder, memberRoles, guildRoles,
                 cmd, recordCalls, announcements, lastPass, clean, serviceVars>>

NextTimer == NextBatch \/ RunSkipped \/ RunThrows

SpecTimer == InitBatch /\ [][NextTimer]_vars

\* C31: isRunning is set exactly while a run is between its start and its
\* end, and while it is clear no processUser is in flight; a run starts only
\* in a step that found isRunning clear, so two runs never overlap; and a tick
\* that found it set changes nothing of the worker, the processUser calls, the
\* store or the members.
C31_OneRunAtATime ==
  /\ [](worker.isRunning <=> worker.pc # "idle")
  /\ [](~worker.isRunning => \A w \in Wallets : ~PuInFlight(w) /\ ~Settled(w))
  /\ [][ worker'.runs # worker.runs => ~worker.isRunning ]_vars
  /\ [][ probe' # probe => worker.isRunning /\ UNCHANGED reconVars ]_vars

\* A tick was skipped, and a run over three identities has ended by a throw
\* before any result was added up, with isRunning clear again.
C31_Witness ==
  /\ probe = Skipped
  /\ ~worker.isRunning /\ worker.pc = "idle"
  /\ worker.runs >= 1 /\ Len(worker.users) = 3
  /\ worker.done = {}


InitUnlink ==
  /\ minTransactions = 0
  /\ batchConfig = [batchSize |-> DefaultBatchSize, maxBatchSize |-> DefaultMaxBatchSize]
  /\ InitLinked(1)
  /\ guildRoles = {"role1"}
  /\ memberRoles = [d \in DiscordIds |-> {}]
  /\ cmd = [d \in DiscordIds |-> IdleCmd]
  /\ worker = IdleWorker
  /\ pu = [w \in Wallets |-> IdlePu]
  /\ recordCalls = Zeroes
  /\ announcements = Zeroes
  /\ lastPass = [w \in Wallets |-> None]
  /\ clean = [w \in Wallets |-> TRUE]
  /\ probe = NoCall
  /\ cache = NoEntry
  /\ fetch = IdleFetch
  /\ now = 0
  /\ throttle = IdleThrottle
  /\ logs = EmptyLogs

NextUnlink ==
  \/ RunStart
  \/ \E w \in Wallets : PuFetched(w, ReconResponses)
  \/ \E w \in Wallets : PuRoleInfo(w)
  \/ \E w \in Wallets : PuAssigning(w)
  \/ \E w \in Wallets : PuAdded(w)
  \/ \E w \in Wallets : PuAnnounced(w)
  \/ RunBatchSettled
  \/ \E d \in StoreAccounts : AdminUnlinkUser(d)
  \/ \E a \in {"w1", "W1"} : AdminUnlinkAddress(a)

SpecUnlink == InitUnlink /\ [][NextUnlink]_vars

\* C33: a step in which the worker grants a role to a member is a step of a
\* processUser whose wallet the store holds, linked, with the record of the
\* target of that role verified.
C33_GrantOnlyWithStoredRecord ==
  [][ \A d \in DiscordIds :
        memberRoles'[d] # memberRoles[d] =>
          \E w \in Wallets :
            /\ pu[w].pc = "adding" /\ pu[w].discordId = d
            /\ data[w].linked
            /\ isVerified(data, w, pu[w].results[pu[w].i].contractId) ]_vars


(***************************************************************************)
(* The cooldown specification: /verify (blockchain variant) called again   *)
(* and again by one user, and the timers that delete its cooldown entry    *)
(***************************************************************************)
\* config.rateLimit.verifyCommandCooldown * 1000, in clock ticks.
CooldownAmount == 2

\* Invocations of /verify the specification follows.
MaxInvocations == 3

\* `cooldowns` for the user: entry is the stored time (-1: no entry);
\* `timers` are the times at which the pending setTimeout callbacks are due,
\* one per element; `waiting` holds the `now` of each execute that awaits
\* deferReply; `passed` the `now` of each execute that went on to the
\* provider, in the order they did; `refused` counts the refusals.
IdleCooldown ==
  [kind |-> "cooldown", entry |-> -1, timers |-> <<>>, waiting |-> <<>>,
   passed |-> <<>>, refused |-> 0]

\* The sequence s without its k-th element.
Without(s, k) == SubSeq(s, 1, k - 1) \o SubSeq(s, k + 1, Len(s))

\* The cooldown test of execute at the time t: the user must wait.
MustWait(c, t) == c.entry # -1 /\ t < c.entry + CooldownAmount

\* execute from its start to `await interaction.deferReply(...)`: refused
\* with the time left, or on to the await.
CooldownCheck ==
  /\ Len(probe.waiting) + Len(probe.passed) + probe.refused < MaxInvocations
  /\ probe' = IF MustWait(probe, now)
              THEN [probe EXCEPT !.refused = @ + 1]
              ELSE [probe EXCEPT !.waiting = Append(@, now)]
  /\ UNCHANGED <<minTransactions, batchConfig, reconVars, cache, fetch, now, throttle, logs>>

\* deferReply returns for one waiting execute, whose user is linked and not
\* yet verified: cooldowns.set(userId, now) with the `now` taken at its start,
\* setTimeout(..., cooldownAmount) from the present moment, and on to the
\* provider.
CooldownSet ==
  /\ \E k \in 1..Len(probe.waiting) :
       probe' = [probe EXCEPT !.entry = probe.waiting[k],
                              !.timers = Append(@, now + CooldownAmount),
                              !.waiting = Without(@, k),
                              !.passed = Append(@, probe.waiting[k])]
  /\ UNCHANGED <<minTransactions, batchConfig, reconVars, cache, fetch, now, throttle, logs>>

\* A timer that is due fires: cooldowns.delete(userId).
CooldownTimer ==
  /\ \E k \in 1..Len(probe.timers) :
       /\ probe.timers[k] <= now
       /\ probe' = [probe EXCEPT !.entry = -1, !.timers = Without(@, k)]
  /\ UNCHANGED <<minTransactions, batchConfig, reconVars, cache, fetch, now, throttle, logs>>

InitCooldown ==
  /\ minTransactions = 0
  /\ batchConfig = [batchSize |-> DefaultBatchSize, maxBatchSize |-> DefaultMaxBatchSize]
  /\ InitLinked(1)
  /\ guildRoles = {"role1"}
  /\ memberRoles = [d \in DiscordIds |-> {}]
  /\ cmd = [d \in DiscordIds |-> IdleCmd]
  /\ worker = IdleWorker
  /\ pu = [w \in Wallets |-> IdlePu]
  /\ recordCalls = Zeroes
  /\ announcements = Zeroes
  /\ lastPass = [w \in Wallets |-> None]
  /\ clean = [w \in Wallets |-> TRUE]
  /\ probe = IdleCooldown
  /\ cache = NoEntry
  /\ fetch = IdleFetch
  /\ now = 0
  /\ throttle = IdleThrottle
  /\ logs = EmptyLogs

NextCooldown == CooldownCheck \/ CooldownSet \/ CooldownTimer \/ Tick

SpecCooldown == InitCooldown /\ [][NextCooldown]_vars

\* C34: any two executions by the user that passed the cooldown test and went
\* on to the provider were invoked at least the cooldown period apart.
C34_PassesCooldownApart ==
  \A i, j \in 1..Len(probe.passed) :
    i < j =>
      \/ probe.passed[j] - probe.passed[i] >= CooldownAmount
      \/ probe.passed[i] - probe.passed[j] >= CooldownAmount


(***************************************************************************)
(* The trace specification: getAllInternalTransactions of one wallet, with *)
(* a trace request per parent transaction                                  *)
(***************************************************************************)
\* An internal transaction of parent hash h (0: no hash) with contract1.
TraceTx(h) ==
  [to |-> ContractAddress("contract1"), from |-> WalletAddr, contractAddress |-> "",
   transactionHash |-> h]

\* What getWalletInternalTransactions gives: a failure, or the wallet's
\* internal transactions, here by their parent hashes.
WalletAnswers ==
  { [success |-> FALSE, transactions |-> <<>>, error |-> "fetch failed"] }
  \cup { [success |-> TRUE, transactions |-> [k \in 1..Len(hs) |-> TraceTx(hs[k])],
          error |-> ""] : hs \in {<<>>, <<1>>, <<1, 2>>, <<2, 0, 1, 2>>} }

\* How the trace request of each hash ends.
TraceOutcomes == [1..2 -> {"ok", "notfound", "fail"}]

\* `[...new Set(transactions.map(tx => tx.transactionHash).filter(...))]`:
\* the hashes that are not null or empty, each once, in order of appearance.
RECURSIVE UniqueHashes(_, _)
UniqueHashes(txns, seen) ==
  IF txns = <<>> THEN <<>>
  ELSE LET h == Head(txns).transactionHash
       IN  IF h = 0 \/ SeqContains(seen, h)
           THEN UniqueHashes(Tail(txns), seen)
           ELSE <<h>> \o UniqueHashes(Tail(txns), Append(seen, h))

\* getTransactionTrace(txHash) when its request ends as `outcome`.
getTransactionTrace(h, outcome) ==
  CASE outcome = "ok" ->
         [success |-> TRUE, transactions |-> <<TraceTx(h), TraceTx(h)>>, error |-> ""]
    [] outcome = "notfound" ->
         [success |-> TRUE, transactions |-> <<>>, error |-> ""]
    [] OTHER ->
         [success |-> FALSE, transactions |-> <<>>, error |-> "fetch failed"]

\* `traces.filter(t => t.success).flatMap(t => t.transactions)`
RECURSIVE FlatSuccessful(_)
FlatSuccessful(traces) ==
  IF traces = <<>> THEN <<>>
  ELSE (IF Head(traces).success THEN Head(traces).transactions ELSE <<>>)
       \o FlatSuccessful(Tail(traces))

\* getAllInternalTransactions at the time t with the cache entry `entry`:
\* what it returns, the entry it leaves, whether the bundle came from the
\* cache, and the hashes whose trace request failed.
getAllInternalTransactions(entry, t, walletTxns, outcomes) ==
  IF isCacheValid(entry, t)
  THEN [result |-> [success |-> TRUE, transactions |-> entry.data, error |-> ""],
        cache |-> entry, fromCache |-> TRUE, failed |-> {}]
  ELSE IF ~walletTxns.success
  THEN [result |-> [success |-> FALSE, transactions |-> <<>>, error |-> walletTxns.error],
        cache |-> entry, fromCache |-> FALSE, failed |-> {}]
  ELSE IF Len(walletTxns.transactions) = 0
  THEN [result |-> [success |-> TRUE, transactions |-> <<>>, error |-> ""],
        cache |-> CacheSet(entry, <<>>, t), fromCache |-> FALSE, failed |-> {}]
  ELSE
    LET txHashes == UniqueHashes(walletTxns.transactions, <<>>)
        traces == [k \in 1..Len(txHashes) |->
                     getTransactionTrace(txHashes[k], outcomes[txHashes[k]])]
        allInternalTxns == FlatSuccessful(traces)
    IN  [result |-> [success |-> TRUE, transactions |-> allInternalTxns, error |-> ""],
         cache |-> CacheSet(entry, allInternalTxns, t), fromCache |-> FALSE,
         failed |-> {txHashes[k] : k \in {j \in 1..Len(txHashes) : ~traces[j].success}}]

\* One call of getAllInternalTransactions for the wallet.  `probe` remembers
\* the call; `partial` tells whether the entry it leaves holds a bundle fetched
\* with a failed trace request.
GetAllInternalTransactions ==
  /\ \E walletTxns \in WalletAnswers, outcomes \in TraceOutcomes :
       LET r == getAllInternalTransactions(cache, now, walletTxns, outcomes)
       IN  /\ cache' = r.cache
           /\ probe' = [kind |-> "traces", result |-> r.result, fromCache |-> r.fromCache,
                        failed |-> r.failed,
                        partial |-> IF r.fromCache
                                    THEN probe.kind = "traces" /\ probe.partial
                                    ELSE IF r.cache # cache THEN r.failed # {}
                                    ELSE probe.kind = "traces" /\ probe.partial]
  /\ UNCHANGED <<minTransactions, batchConfig, reconVars, fetch, now, throttle, logs>>

NextTraces == GetAllInternalTransactions \/ Tick

SpecTraces == Init /\ [][NextTraces]_vars

\* C35: a call in which a trace request failed does not report success, and
\* the cache never holds a bundle that was put together while a trace request
\* had failed.
C35_NoPartialBundle ==
  probe.kind = "traces" =>
    /\ probe.failed # {} => ~probe.result.success
    /\ ~probe.partial


(***************************************************************************)
(* The partition specification: createBatches on lists of items            *)
(***************************************************************************)
\* Longest list of items partitioned.
MaxItems == 4

\* The lists of at most MaxItems items.
ItemLists == UNION {[1..n -> Wallets] : n \in 0..MaxItems}

\* The batch sizes tried.
BatchSizes == 1..3

\* createBatches(items, batchSize) is called; `probe` keeps the call and what
\* it returned.
CreateBatches ==
  /\ \E items \in ItemLists, batchSize \in BatchSizes :
       probe' = [kind |-> "batches", items |-> items, batchSize |-> batchSize,
                 batches |-> createBatches(items, batchSize)]
  /\ UNCHANGED <<minTransactions, batchConfig, reconVars, cache, fetch, now, throttle, logs>>

NextPartition == CreateBatches

SpecPartition == Init /\ [][NextPartition]_vars

\* The batches one after another.
RECURSIVE Concatenated(_)
Concatenated(batches) ==
  IF batches = <<>> THEN <<>> ELSE Head(batches) \o Concatenated(Tail(batches))

\* C36: the batches createBatches returns, put one after another, are the
\* items in their order; no batch is empty, none is longer than batchSize,
\* and every batch but the last has exactly batchSize items.
C36_BatchesPartitionItems ==
  probe.kind = "batches" =>
    /\ Concatenated(probe.batches) = probe.items
    /\ \A k \in 1..Len(probe.batches) :
         /\ Len(probe.batches[k]) >= 1
         /\ Len(probe.batches[k]) <= probe.batchSize
         /\ k < Len(probe.batches) => Len(probe.batches[k]) = probe.batchSize

\* Four items in batches of three: a full batch and a last batch of one.
C36_Witness ==
  /\ probe.kind = "batches"
  /\ Len(probe.items) = 4 /\ probe.batchSize = 3
  /\ Len(probe.batches) = 2
  /\ Len(probe.batches[1]) = 3 /\ Len(probe.batches[2]) = 1


(***************************************************************************)
(* The database specification: the store's write methods called in any    *)
(* order, for a linked wallet and for wallets the store does not hold      *)
(***************************************************************************)
\* Attempts the specification counts up to.
MaxAttempts == 2

\* discordUsername values.
Usernames == {"null", "name"}

\* incrementAttempts(walletAddress)
MutIncrementAttempts(db, w) ==
  [db EXCEPT ![w] = IF db[w].linked THEN [@ EXCEPT !.attempts = @ + 1]
                    ELSE [NewUserEntry("null") EXCEPT !.attempts = 1]]

incrementAttempts(db, w) ==
  IF ~db[w].linked THEN db ELSE [db EXCEPT ![w].attempts = @ + 1]

\* updateUserInfo(walletAddress, discordUsername, discordTag)
updateUserInfo(db, w, discordUsername) ==
  IF db[w].linked THEN [db EXCEPT ![w].discordUsername = discordUsername] ELSE db

\* A method of the store was called for the wallet w and left the store db2
\* and the logs logs2.  `probe` keeps the call: whether the wallet was linked,
\* and whether the role id passed was in its list already.
DbCall(method, w, db2, logs2, held) ==
  /\ data' = db2
  /\ logs' = logs2
  /\ probe' = [kind |-> "db", method |-> method, wallet |-> w,
               linked |-> data[w].linked, held |-> held]
  /\ UNCHANGED <<minTransactions, batchConfig, walletOrder, memberRoles, guildRoles, cmd,
                 worker, pu, recordCalls, announcements, lastPass, clean, cache, fetch, now,
                 throttle>>

\* recordVerification(...): the record, the role id and lastCheckedAt, then a
\* line in the success log; nothing for a wallet the store does not hold.
DbRecordVerification(w, c, roleId) ==
  /\ Len(logs.success.recorded) < MaxRecorded
  /\ DbCall("recordVerification", w,
            recordVerification(data, w, c, roleId, DefaultMinTransactions, Now),
            IF data[w].linked
            THEN [logs EXCEPT !.success =
                    RecordIn(@, [n |-> Len(@.recorded) + 1, kind |-> "SUCCESS", text |-> c])]
            ELSE logs,
            data[w].linked /\ SeqContains(data[w].roles, roleId))

MutDbAddUserRole(w, roleId) ==
  DbCall("addUserRole", w,
         IF data[w].linked THEN [data EXCEPT ![w].roles = Append(@, roleId)] ELSE data,
         logs, data[w].linked /\ SeqContains(data[w].roles, roleId))

DbAddUserRole(w, roleId) ==
  DbCall("addUserRole", w, addUserRole(data, w, roleId), logs,
         data[w].linked /\ SeqContains(data[w].roles, roleId))

DbUpdateLastChecked(w) ==
  DbCall("updateLastChecked", w, updateLastChecked(data, w, Now), logs, FALSE)

DbIncrementAttempts(w) ==
  /\ data[w].linked => data[w].attempts < MaxAttempts
  /\ DbCall("incrementAttempts", w, incrementAttempts(data, w), logs, FALSE)

DbUpdateUserInfo(w, discordUsername) ==
  DbCall("updateUserInfo", w, updateUserInfo(data, w, discordUsername), logs, FALSE)

\* The store holds w1, whose entry carries its discordUsername; w2 and w3 are
\* not linked.
InitDb ==
  /\ minTransactions = 0
  /\ batchConfig = [batchSize |-> DefaultBatchSize, maxBatchSize |-> DefaultMaxBatchSize]
  /\ walletOrder = <<"w1">>
  /\ data = [w \in Wallets |->
               IF w = "w1" THEN NewUserEntry("d1") @@ [discordUsername |-> "null"]
               ELSE NoUser]
  /\ guildRoles = {"role1"}
  /\ InitRest

NextDb ==
  \/ \E w \in Wallets, c \in ContractIds, roleId \in Roles : DbRecordVerification(w, c, roleId)
  \/ \E w \in Wallets, roleId \in Roles : DbAddUserRole(w, roleId)
  \/ \E w \in Wallets : DbUpdateLastChecked(w)
  \/ \E w \in Wallets : DbIncrementAttempts(w)
  \/ \E w \in Wallets, n \in Usernames : DbUpdateUserInfo(w, n)

SpecDb == InitDb /\ [][NextDb]_vars

\* C37: no stored roles list holds a role id at two places.
C37_NoRoleTwice ==
  \A w \in Wallets :
    data[w].linked =>
      \A i, j \in 1..Len(data[w].roles) : i # j => data[w].roles[i] # data[w].roles[j]

\* addUserRole has just been called with a role id that was in the list, which
\* holds both role ids.
C37_Witness ==
  /\ probe.kind = "db" /\ probe.method = "addUserRole"
  /\ probe.linked /\ probe.held
  /\ Len(data[probe.wallet].roles) = 2


\* C38: a call of recordVerification, addUserRole, updateLastChecked,
\* incrementAttempts or updateUserInfo for a wallet the store does not hold
\* leaves the store and the success log as they were, and the wallet unlinked
\* with no verification record.
C38_UnlinkedWalletUntouched ==
  [][\A w \in Wallets :
       (~data[w].linked /\ probe'.kind = "db" /\ probe'.wallet = w) =>
         /\ data' = data
         /\ walletOrder' = walletOrder
         /\ logs' = logs
         /\ data'[w] = NoUser]_vars

\* recordVerification has just been called for a wallet that is not linked,
\* after a call for the linked wallet wrote its record and its log line.
C38_Witness ==
  /\ probe.kind = "db" /\ probe.method = "recordVerification"
  /\ ~probe.linked
  /\ data[probe.wallet] = NoUser
  /\ \E c \in ContractIds : data["w1"].verifications[c].verified
  /\ Len(logs.success.recorded) > 0


(***************************************************************************)
(* The pool specification: createConnectionPool(maxConnections), its       *)
(* acquire() and release() called in any order in which a release follows  *)
(* a granted acquire                                                       *)
(***************************************************************************)
\* Largest maxConnections a pool is created with.
MaxConnections == 2

\* acquire() calls in a behaviour; the k-th call is the acquirer k.
MaxAcquires == 5

\* createConnectionPool(maxConnections): `activeConnections = 0`, `queue = []`.
\* holders are the acquirers granted and not yet released, served the
\* acquirers granted out of the queue, in the order of their grants.
createConnectionPool(maxConnections) ==
  [kind |-> "pool", maxConnections |-> maxConnections, activeConnections |-> 0,
   queue |-> <<>>, holders |-> {}, calls |-> 0, served |-> <<>>]

\* acquire(): granted at once below the maximum, queued otherwise.
acquire(pool) ==
  LET k == pool.calls + 1 IN
  IF pool.activeConnections < pool.maxConnections
  THEN [pool EXCEPT !.calls = k, !.activeConnections = @ + 1, !.holders = @ \cup {k}]
  ELSE [pool EXCEPT !.calls = k, !.queue = Append(@, k)]

\* release() by the holder k: `activeConnections--`, then the head of the queue
\* is granted (`activeConnections++; queue.shift()()`).
MutRelease(pool, k) ==
  LET freed == [pool EXCEPT !.activeConnections = @ - 1, !.holders = @ \ {k}] IN
  IF Len(freed.queue) > 0
  THEN LET next == freed.queue[Len(freed.queue)] IN
       [freed EXCEPT !.activeConnections = @ + 1,
                     !.queue = SubSeq(@, 1, Len(@) - 1),
                     !.holders = @ \cup {next},
                     !.served = Append(@, next)]
  ELSE freed

release(pool, k) ==
  LET freed == [pool EXCEPT !.activeConnections = @ - 1, !.holders = @ \ {k}] IN
  IF Len(freed.queue) > 0
  THEN LET next == Head(freed.queue) IN
       [freed EXCEPT !.activeConnections = @ + 1,
                     !.queue = Tail(@),
                     !.holders = @ \cup {next},
                     !.served = Append(@, next)]
  ELSE freed

getActiveCount(pool) == pool.activeConnections

Acquire ==
  /\ probe.calls < MaxAcquires
  /\ probe' = acquire(probe)
  /\ UNCHANGED <<minTransactions, batchConfig, reconVars, cache, fetch, now, throttle, logs>>

\* A holder releases: release() after its granted acquire().
Release ==
  /\ \E k \in probe.holders : probe' = release(probe, k)
  /\ UNCHANGED <<minTransactions, batchConfig, reconVars, cache, fetch, now, throttle, logs>>

InitPool ==
  /\ minTransactions = 0
  /\ batchConfig = [batchSize |-> DefaultBatchSize, maxBatchSize |-> DefaultMaxBatchSize]
  /\ InitLinked(1)
  /\ guildRoles = {"role1"}
  /\ memberRoles = [d \in DiscordIds |-> {}]
  /\ cmd = [d \in DiscordIds |-> IdleCmd]
  /\ worker = IdleWorker
  /\ pu = [w \in Wallets |-> IdlePu]
  /\ recordCalls = Zeroes
  /\ announcements = Zeroes
  /\ lastPass = [w \in Wallets |-> None]
  /\ clean = [w \in Wallets |-> TRUE]
  /\ \E maxConnections \in 1..MaxConnections : probe = createConnectionPool(maxConnections)
  /\ cache = NoEntry
  /\ fetch = IdleFetch
  /\ now = 0
  /\ throttle = IdleThrottle
  /\ logs = EmptyLogs

NextPool == Acquire \/ Release

SpecPool == InitPool /\ [][NextPool]_vars

\* C39: getActiveCount() never exceeds the maximum, and the acquirers that
\* waited are granted in the order of their acquire() calls: the granted
\* waiters are in call order, and none was granted ahead of one still queued.
C39_PoolBoundedAndFifo ==
  /\ getActiveCount(probe) <= probe.maxConnections
  /\ \A i, j \in 1..Len(probe.served) : i < j => probe.served[i] < probe.served[j]
  /\ \A i \in 1..Len(probe.served), j \in 1..Len(probe.queue) :
       probe.served[i] < probe.queue[j]

\* The pool is full, two waiters have been granted out of the queue and
\* another is still waiting.
C39_Witness ==
  /\ probe.kind = "pool"
  /\ getActiveCount(probe) = probe.maxConnections
  /\ Len(probe.served) >= 2
  /\ Len(probe.queue) >= 1

====
